---------------------------- MODULE Spec2Model ----------------------------
(***************************************************************************)
(* A model of the Texas Hold'em hand engine of PokerClientV1:              *)
(* internal/game/game.go (Game.Start, Game.playHand, Game.runBettingRound, *)
(* Game.showdown, Game.awardPot, Game.awardPotUncontested), the chip       *)
(* accounting of the players (internal/player) and the deck of cards       *)
(* (internal/game/deck.go).  The hand engine follows the cards by their    *)
(* number; the cards themselves are followed in SpecDeck and SpecCards.    *)
(* BotPlayer.TakeTurn with BotAI.DecideAction is followed in SpecBot.      *)
(*                                                                         *)
(* The program is single threaded.  Its position is kept in pc; one action *)
(* is one step of Start / playHand or one iteration of a loop of           *)
(* runBettingRound.  What a player returns from TakeTurn is an input: any  *)
(* action string and any amount of the sets Actions and Amounts.           *)
(***************************************************************************)
EXTENDS Integers, Sequences, FiniteSets, TLC

(***************************************************************************)
(* Program constants (game.go:11-15, game.go:51, deck.go:23-24).           *)
(***************************************************************************)
SmallBlind == 1
BigBlind == 2
MinRaise == BigBlind
NumHands == 5
DeckSize == 52
\* types.Suit and types.Rank: the first and last suit, the lowest and highest rank
Spade == 0
Heart == 1
Diamond == 2
Club == 3
Two == 2
Ace == 14

(***************************************************************************)
(* Bounds of the model.                                                    *)
(***************************************************************************)
\* number of seats at the table (len(g.Players))
NumPlayers == 3
\* the chips of a deep stack at the start of the game
MaxChips == 5
\* largest amount a player returns from TakeTurn (the smallest is -1)
MaxAmount == 5
\* number of hands of the Start loop that are explored
MaxHands == 1
\* number of different evaluated-hand strengths at a showdown
MaxHandRank == 2
\* largest table for which determineBlinds is run on its own
MaxSeats == 6
\* largest numCards for which dealHands is run on its own
MaxDeal == 18
\* Deck.Shuffle: the number of draws of the random source that are free (the
\* first MaxSwaps draws of a shuffle), and how far below i such a draw falls
MaxSwaps == 2
MaxDraw == 2
\* number of Shuffle calls on a deck that is run on its own
MaxShuffles == 1
\* largest numCards for which Deck.DealMultiple is run on its own
MaxDealN == 3
\* number of hands whose cards are followed one by one
MaxCardHands == 2
\* the smallest and largest table at which the deck runs out (SpecCrowd)
MinCrowd == 24
MaxCrowd == 27

Players == 0 .. (NumPlayers - 1)

\* The stacks the players sit down with: no chips (a player that went broke
\* and was never removed), less than the big blind, and a deep stack.
Stacks == {0, SmallBlind, MaxChips}

\* The action strings a player may return.  "exit" is the spec's exit signal;
\* runBettingRound's switch has no case for it (nor for any other string).
Actions == {"fold", "check", "call", "raise", "exit"}
Amounts == (-1) .. MaxAmount

VARIABLES
    pc,                 \* position in Start / playHand / runBettingRound
    handNo,             \* i of Start's loop
    chips,              \* Player.Chips
    folded,             \* Player.Folded
    curBet,             \* Player.CurrentBet (bet in the current round)
    hand,               \* len(Player.Hand.Cards)
    Pot,                \* Game.Pot
    CurrentBet,         \* Game.Table.CurrentBet
    Round,              \* Game.Table.Round
    community,          \* len(Game.Table.CommunityCards)
    deck,               \* len(Game.Deck.cards)
    DealerPos,          \* Game.DealerPos
    SmallBlindPos,      \* Game.SmallBlindPos
    BigBlindPos,        \* Game.BigBlindPos
    stage,              \* playHand: which of its four betting rounds is running
    seats,              \* len(Game.Players)
    lastRaiser,         \* runBettingRound: lastRaiser
    playersActed,       \* runBettingRound: playersActed
    numToAct,           \* runBettingRound: numToAct
    currentPlayerIndex, \* runBettingRound: currentPlayerIndex
    actTarget,          \* runBettingRound: actTarget
    contrib,            \* observed: chips each player moved into the pot this hand
    awards,             \* observed: the pots paid this hand, in order
    handRank,           \* observed: strength of each player's cards at showdown
    log,                \* observed: the decision points of the current round
    lastLogged,         \* observed: text of the round's last UI.LogAction call
    loggedAmounts,      \* observed: the amounts of the UI.LogAction calls made
                        \* by postBlinds or for the round's last decision
    cards,              \* Deck.cards
    handCards,          \* Player.Hand.Cards
    CommunityCards,     \* Game.Table.CommunityCards
    dealtCards,         \* observed: the cards the last Deck call returned
    dealErr,            \* observed: whether the last call of Deal or
                        \* DealMultiple on the deck returned an error
    shuffles,           \* number of Shuffle calls so far
    difficulty,         \* BotPlayer.AI.Difficulty
    turnReturned,       \* whether BotPlayer.TakeTurn was called and returned
    turnAction,         \* the action BotPlayer.TakeTurn returned
    turnAmount          \* the amount BotPlayer.TakeTurn returned

gameVars == <<pc, handNo, chips, folded, curBet, hand, Pot, CurrentBet, Round,
              community, deck, DealerPos, SmallBlindPos, BigBlindPos, stage,
              seats>>
roundVars == <<lastRaiser, playersActed, numToAct, currentPlayerIndex, actTarget>>
obsVars == <<contrib, awards, handRank, log, lastLogged, loggedAmounts>>
cardVars == <<cards, handCards, CommunityCards, dealtCards, dealErr, shuffles>>
botVars == <<difficulty, turnReturned, turnAction, turnAmount>>
vars == <<gameVars, roundVars, obsVars, cardVars, botVars>>

-----------------------------------------------------------------------------
(***************************************************************************)
(* Helpers.                                                                *)
(***************************************************************************)
Min(a, b) == IF a < b THEN a ELSE b
Max(a, b) == IF a > b THEN a ELSE b

RECURSIVE SumOver(_, _)
SumOver(f, S) ==
    IF S = {} THEN 0
    ELSE LET x == CHOOSE y \in S : TRUE IN f[x] + SumOver(f, S \ {x})

\* Game.getActivePlayers: not folded and chips > 0
getActivePlayers == {p \in Players : ~folded[p] /\ chips[p] > 0}

\* Game.getPlayersInHand, as a set: not folded
PlayersInHandOf(fl) == {p \in Players : ~fl[p]}
getPlayersInHand == PlayersInHandOf(folded)

\* remaining[0]: getPlayersInHand keeps the order of g.Players
FirstOf(S) == CHOOSE p \in S : \A q \in S : p <= q

\* main.go seats the human player first, the bots after it
IsHumanSeat(p) == p = 0

\* Player.RemoveChips: HumanPlayer refuses an amount above its chips and
\* removes nothing; BotPlayer (and the tests' MockPlayer) removes all.
RemoveChips(p, c, amount) ==
    IF amount > c
    THEN IF IsHumanSeat(p) THEN c ELSE 0
    ELSE c - amount

\* Player.AddChips
AddChips(c, amount) == c + amount

NoRanks == [p \in Players |-> 0]
NoChips == [p \in Players |-> 0]

\* the hand engine follows the cards by their number only
CardsNotFollowed ==
    /\ cards = <<>>
    /\ handCards = [p \in Players |-> <<>>]
    /\ CommunityCards = <<>>
    /\ dealtCards = <<>>
    /\ dealErr = FALSE
    /\ shuffles = 0

\* the players of the hand engine are any implementation of types.Player:
\* what they return is an input, and no BotPlayer is followed
BotsNotFollowed ==
    /\ difficulty = ""
    /\ turnReturned = FALSE
    /\ turnAction = ""
    /\ turnAmount = 0

-----------------------------------------------------------------------------
(***************************************************************************)
(* NewGame, with each player's chips one of Stacks.                        *)
(***************************************************************************)
Init ==
    /\ pc = "start"
    /\ handNo = 0
    /\ chips \in [Players -> Stacks]
    /\ folded = [p \in Players |-> FALSE]
    /\ curBet = [p \in Players |-> 0]
    /\ hand = [p \in Players |-> 0]
    /\ Pot = 0
    /\ CurrentBet = 0
    /\ Round = ""
    /\ community = 0
    /\ deck = DeckSize
    /\ DealerPos = 0
    /\ SmallBlindPos = 0
    /\ BigBlindPos = 0
    /\ stage = 0
    /\ seats = NumPlayers
    /\ lastRaiser = -1
    /\ playersActed = 0
    /\ numToAct = 0
    /\ currentPlayerIndex = 0
    /\ actTarget = 0
    /\ contrib = NoChips
    /\ awards = <<>>
    /\ handRank = NoRanks
    /\ log = <<>>
    /\ lastLogged = ""
    /\ loggedAmounts = <<>>
    /\ BotsNotFollowed
    /\ CardsNotFollowed

-----------------------------------------------------------------------------
(***************************************************************************)
(* Start: the loop head (game.go:51-57) and the end of the game.           *)
(***************************************************************************)
\* game.go:51-57: another hand is played while i < 5 and two players are active
StartHand ==
    /\ pc = "start"
    /\ handNo < NumHands
    /\ handNo < MaxHands
    /\ Cardinality(getActivePlayers) >= 2
    /\ pc' = "reset"
    /\ UNCHANGED <<handNo, chips, folded, curBet, hand, Pot, CurrentBet, Round,
                   community, deck, DealerPos, SmallBlindPos, BigBlindPos, stage>>
    /\ UNCHANGED <<roundVars, obsVars>>
    /\ UNCHANGED <<seats, cardVars, botVars>>

\* game.go:51-54, 63: the loop ends
GameOver ==
    /\ pc = "start"
    /\ ~(handNo < NumHands /\ Cardinality(getActivePlayers) >= 2)
    /\ pc' = "gameOver"
    /\ UNCHANGED <<handNo, chips, folded, curBet, hand, Pot, CurrentBet, Round,
                   community, deck, DealerPos, SmallBlindPos, BigBlindPos, stage>>
    /\ UNCHANGED <<roundVars, obsVars>>
    /\ UNCHANGED <<seats, cardVars, botVars>>

(***************************************************************************)
(* playHand, steps 1 to 5.                                                 *)
(***************************************************************************)
\* Game.resetForNewHand: a fresh deck, Table.ResetForNewHand, Pot = 0 and
\* Player.ResetForNewHand for every player (chips carry over)
resetForNewHand ==
    /\ pc = "reset"
    /\ deck' = DeckSize
    /\ community' = 0
    /\ CurrentBet' = 0
    /\ Round' = ""
    /\ Pot' = 0
    /\ hand' = [p \in Players |-> 0]
    /\ folded' = [p \in Players |-> FALSE]
    /\ curBet' = [p \in Players |-> 0]
    /\ pc' = "blindPos"
    /\ UNCHANGED <<handNo, chips, DealerPos, SmallBlindPos, BigBlindPos, stage>>
    /\ UNCHANGED <<roundVars, obsVars>>
    /\ UNCHANGED <<seats, cards, handCards, CommunityCards, dealtCards, shuffles>>
    /\ UNCHANGED botVars
    /\ dealErr' = FALSE

\* (mutant) the heads-up case is not told apart
SmallBlindPosFor_NoHeadsUp(dealer, n) == (dealer + 1) % n

\* Game.determineBlinds
SmallBlindPosFor(dealer, n) == IF n = 2 THEN dealer ELSE (dealer + 1) % n
BigBlindPosFor(dealer, n) == IF n = 2 THEN (dealer + 1) % n ELSE (dealer + 2) % n

determineBlinds ==
    /\ pc = "blindPos"
    /\ SmallBlindPos' = SmallBlindPosFor(DealerPos, seats)
    /\ BigBlindPos' = BigBlindPosFor(DealerPos, seats)
    /\ pc' = "postBlinds"
    /\ UNCHANGED <<handNo, chips, folded, curBet, hand, Pot, CurrentBet, Round,
                   community, deck, DealerPos, stage>>
    /\ UNCHANGED <<roundVars, obsVars>>
    /\ UNCHANGED <<seats, cardVars, botVars>>

\* (mutant) the forced bet is not capped at the player's chips
forceBetAmount_Uncapped(c, amount) == amount

\* Game.forceBet: the amount that is bet, capped at the player's chips
forceBetAmount(c, amount) == IF c < amount THEN c ELSE amount

\* (mutant) the forced bet is taken from the player and not added to the pot
forceBetPot_Lost(pot, betAmount) == pot

\* Game.forceBet: what is added to g.Pot
forceBetPot(pot, betAmount) == pot + betAmount

\* Game.postBlinds: forceBet of the small blind, then of the big blind, then
\* Table.CurrentBet = BigBlind
postBlindsCurrentBet == BigBlind

postBlinds ==
    /\ pc = "postBlinds"
    /\ LET sb == SmallBlindPos
           bb == BigBlindPos
           sbAmount == forceBetAmount(chips[sb], SmallBlind)
           chips1 == [chips EXCEPT ![sb] = RemoveChips(sb, chips[sb], sbAmount)]
           bet1 == [curBet EXCEPT ![sb] = sbAmount]
           pot1 == forceBetPot(Pot, sbAmount)
           con1 == [contrib EXCEPT ![sb] = @ + sbAmount]
           bbAmount == forceBetAmount(chips1[bb], BigBlind)
       IN /\ chips' = [chips1 EXCEPT ![bb] = RemoveChips(bb, chips1[bb], bbAmount)]
          /\ curBet' = [bet1 EXCEPT ![bb] = bbAmount]
          /\ Pot' = forceBetPot(pot1, bbAmount)
          /\ contrib' = [con1 EXCEPT ![bb] = @ + bbAmount]
          /\ loggedAmounts' = <<sbAmount, bbAmount>>
    /\ CurrentBet' = postBlindsCurrentBet
    /\ pc' = "deal"
    /\ UNCHANGED <<handNo, folded, hand, Round, community, deck, DealerPos,
                   SmallBlindPos, BigBlindPos, stage>>
    /\ UNCHANGED <<roundVars, awards, handRank, log, lastLogged>>
    /\ UNCHANGED <<seats, cardVars, botVars>>

\* (mutant) every player is dealt cards
isDealtTo_Everyone(p) == TRUE

\* game.go:206: only players with chips are dealt cards
isDealtTo(p) == chips[p] > 0

\* game.go:205-214: one pass over g.Players, in seat order; each player that
\* is dealt to gets one card while the deck lasts, and the pass fails at the
\* first such player that finds the deck empty.  The seats beyond the
\* players that are followed (seats > NumPlayers, in SpecCrowd) come after
\* them in g.Players and all hold chips.
DealPass(h, d) ==
    LET turnOf(p) == Cardinality({q \in Players : q <= p /\ isDealtTo(q)})
        dealt == {p \in Players : isDealtTo(p) /\ turnOf(p) <= d}
        others == seats - NumPlayers
        othersDealt == Min(others, d - Cardinality(dealt))
    IN [hand |-> [p \in Players |-> IF p \in dealt THEN h[p] + 1 ELSE h[p]],
        deck |-> d - Cardinality(dealt) - othersDealt,
        failed |-> \/ \E p \in Players : isDealtTo(p) /\ p \notin dealt
                   \/ othersDealt < others]

\* Game.dealHands: numCards passes; a failed Deal ends the dealing
RECURSIVE DealLoop(_, _, _, _)
DealLoop(i, numCards, h, d) ==
    IF i >= numCards THEN [hand |-> h, deck |-> d, failed |-> FALSE]
    ELSE LET r == DealPass(h, d)
         IN IF r.failed THEN r
            ELSE DealLoop(i + 1, numCards, r.hand, r.deck)

dealHandsWith(numCards) ==
    /\ pc = "deal"
    /\ LET r == DealLoop(0, numCards, hand, deck)
       IN /\ hand' = r.hand
          /\ deck' = r.deck
          /\ dealErr' = r.failed
    /\ pc' = "preflop"
    /\ UNCHANGED <<handNo, chips, folded, curBet, Pot, CurrentBet, Round,
                   community, DealerPos, SmallBlindPos, BigBlindPos, stage>>
    /\ UNCHANGED <<roundVars, obsVars>>
    /\ UNCHANGED <<seats, cards, handCards, CommunityCards, dealtCards, shuffles>>
    /\ UNCHANGED botVars

\* playHand step 5 (game.go:111): two cards each
dealHands == dealHandsWith(2)

\* playHand step 6 (game.go:116): the pre-flop round is named
beginPreflop ==
    /\ pc = "preflop"
    /\ Round' = "Pre-flop"
    /\ stage' = 1
    /\ pc' = "beginRound"
    /\ UNCHANGED <<handNo, chips, folded, curBet, hand, Pot, CurrentBet,
                   community, deck, DealerPos, SmallBlindPos, BigBlindPos>>
    /\ UNCHANGED <<roundVars, obsVars>>
    /\ UNCHANGED <<seats, cardVars, botVars>>

-----------------------------------------------------------------------------
(***************************************************************************)
(* runBettingRound.                                                        *)
(***************************************************************************)
\* the startPos playHand passes: (BigBlindPos + 1) % n before the flop,
\* SmallBlindPos after it (game.go:118, 123, 128, 133)
startPosFor(st) ==
    IF st = 1 THEN (BigBlindPos + 1) % NumPlayers ELSE SmallBlindPos

\* game.go:268-271
actTargetFor(round, startPos) ==
    IF round = "Pre-flop" THEN BigBlindPos
    ELSE (startPos - 1 + NumPlayers) % NumPlayers

\* (mutant) only folded players are skipped
IsSkipped_FoldedOnly(p) == folded[p]

\* game.go:261, 282: a player that is skipped
IsSkipped(p) == folded[p] \/ chips[p] = 0

\* game.go:253-260, 268-271: the locals of a round
beginRound ==
    /\ pc = "beginRound"
    /\ lastRaiser' = -1
    /\ playersActed' = 0
    /\ numToAct' = Cardinality(getPlayersInHand)
    /\ currentPlayerIndex' = startPosFor(stage)
    /\ actTarget' = actTargetFor(Round, startPosFor(stage))
    /\ log' = <<>>
    /\ lastLogged' = ""
    /\ loggedAmounts' = <<>>
    /\ pc' = "seek"
    /\ UNCHANGED <<handNo, chips, folded, curBet, hand, Pot, CurrentBet, Round,
                   community, deck, DealerPos, SmallBlindPos, BigBlindPos, stage>>
    /\ UNCHANGED <<contrib, awards, handRank>>
    /\ UNCHANGED <<seats, cardVars, botVars>>

\* game.go:261-263: the first player to act is looked for, one index at a time
seekSkip ==
    /\ pc = "seek"
    /\ IsSkipped(currentPlayerIndex)
    /\ currentPlayerIndex' = (currentPlayerIndex + 1) % NumPlayers
    /\ UNCHANGED <<gameVars, obsVars, cardVars, botVars>>
    /\ UNCHANGED <<lastRaiser, playersActed, numToAct, actTarget>>

seekFound ==
    /\ pc = "seek"
    /\ ~IsSkipped(currentPlayerIndex)
    /\ pc' = "loop"
    /\ UNCHANGED <<handNo, chips, folded, curBet, hand, Pot, CurrentBet, Round,
                   community, deck, DealerPos, SmallBlindPos, BigBlindPos, stage>>
    /\ UNCHANGED <<roundVars, obsVars>>
    /\ UNCHANGED <<seats, cardVars, botVars>>

\* game.go:394-398: what runBettingRound returns after its loop, and where
\* playHand goes with it (game.go:118-145)
\* (mutant) the round always reports that the hand continues
roundReturn_Always(fl) == TRUE

roundReturn(fl) == Cardinality(PlayersInHandOf(fl)) > 1

\* (mutant) playHand goes on to the next round whatever the round returned
pcAfterRound_Continue(continues) == "nextStage"

pcAfterRound(continues) == IF continues THEN "nextStage" ELSE "finish"

\* the locals of runBettingRound go out of scope when it returns, and the
\* round's decision points are no longer observed
leaveRound ==
    /\ log' = <<>>
    /\ lastLogged' = ""
    /\ loggedAmounts' = <<>>
    /\ lastRaiser' = -1
    /\ playersActed' = 0
    /\ numToAct' = 0
    /\ currentPlayerIndex' = 0
    /\ actTarget' = 0

\* game.go:273: the loop condition fails
loopDone ==
    /\ pc = "loop"
    /\ ~(playersActed < numToAct)
    /\ pc' = pcAfterRound(roundReturn(folded))
    /\ leaveRound
    /\ UNCHANGED <<handNo, chips, folded, curBet, hand, Pot, CurrentBet, Round,
                   community, deck, DealerPos, SmallBlindPos, BigBlindPos, stage>>
    /\ UNCHANGED <<contrib, awards, handRank>>
    /\ UNCHANGED <<seats, cardVars, botVars>>

\* game.go:275-277: one player is left, the round returns false
onePlayerLeft ==
    /\ pc = "loop"
    /\ playersActed < numToAct
    /\ Cardinality(getPlayersInHand) <= 1
    /\ pc' = pcAfterRound(FALSE)
    /\ leaveRound
    /\ UNCHANGED <<handNo, chips, folded, curBet, hand, Pot, CurrentBet, Round,
                   community, deck, DealerPos, SmallBlindPos, BigBlindPos, stage>>
    /\ UNCHANGED <<contrib, awards, handRank>>
    /\ UNCHANGED <<seats, cardVars, botVars>>

\* game.go:282-290: a folded or all-in player is passed over
skipPlayer ==
    /\ pc = "loop"
    /\ playersActed < numToAct
    /\ Cardinality(getPlayersInHand) > 1
    /\ IsSkipped(currentPlayerIndex)
    /\ currentPlayerIndex' = (currentPlayerIndex + 1) % NumPlayers
    /\ UNCHANGED <<gameVars, obsVars, cardVars, botVars>>
    /\ UNCHANGED <<lastRaiser, playersActed, numToAct, actTarget>>

\* (mutant) the loop never stops at the last raiser
IsBackAtRaiser_Never(raiser, idx) == FALSE

\* game.go:293: the action is back at the last raiser
IsBackAtRaiser(raiser, idx) == raiser = idx

\* game.go:293-295: break
backAtRaiser ==
    /\ pc = "loop"
    /\ playersActed < numToAct
    /\ Cardinality(getPlayersInHand) > 1
    /\ ~IsSkipped(currentPlayerIndex)
    /\ IsBackAtRaiser(lastRaiser, currentPlayerIndex)
    /\ pc' = pcAfterRound(roundReturn(folded))
    /\ leaveRound
    /\ UNCHANGED <<handNo, chips, folded, curBet, hand, Pot, CurrentBet, Round,
                   community, deck, DealerPos, SmallBlindPos, BigBlindPos, stage>>
    /\ UNCHANGED <<contrib, awards, handRank>>
    /\ UNCHANGED <<seats, cardVars, botVars>>

(***************************************************************************)
(* One decision point (game.go:297-388).  Outcome is what the switch does  *)
(* with the (action, amount) a player returned:                            *)
(*   kind  "fold"  the player is folded                                    *)
(*         "check" nothing moves                                           *)
(*         "call"  bet chips move, the round bet grows by bet              *)
(*         "raise" bet chips move, Table.CurrentBet becomes the round bet  *)
(*         "none"  no case of the switch matched                           *)
(*   bet   betAmount, the chips moved into the pot                         *)
(*   label the text given to UI.LogAction                                  *)
(* c = chips, cb = the player's round bet, cur = Table.CurrentBet.         *)
(***************************************************************************)
\* (mutant) a check is never refused
checkRefused_Never(cb, cur) == FALSE

\* game.go:309: a check is refused when there is a bet to match
checkRefused(cb, cur) == cur > cb

\* game.go:308-317
checkOutcome(cb, cur) ==
    IF checkRefused(cb, cur)
    THEN [kind |-> "fold", bet |-> 0, label |-> "folds (error)"]
    ELSE [kind |-> "check", bet |-> 0, label |-> "checks"]

\* (mutant) the call is taken as reported, capped at the player's chips
callBetAmount_AsReported(c, cb, cur, amount) == IF amount > c THEN c ELSE amount

\* game.go:319-328: betAmount of a call
callBetAmount(c, cb, cur, amount) ==
    LET betAmount == IF amount > c THEN c ELSE amount
        callAmountNeeded == cur - cb
    IN IF betAmount # callAmountNeeded /\ c >= callAmountNeeded
       THEN callAmountNeeded
       ELSE betAmount

\* game.go:318-332
callOutcome(c, cb, cur, amount) ==
    [kind |-> "call", bet |-> callBetAmount(c, cb, cur, amount), label |-> "calls"]

\* game.go:334-337: betAmount of a raise
raiseBetAmount(c, amount) == IF amount > c THEN c ELSE amount

\* (mutant) the call of an invalid raise is not capped at the player's chips
invalidRaiseCallAmount_Uncapped(c, cb, cur) == Max(cur - cb, 0)

\* game.go:346-353: the call an invalid raise is turned into
invalidRaiseCallAmount(c, cb, cur) ==
    LET needed == Max(cur - cb, 0)
    IN IF needed > c THEN c ELSE needed

\* (mutant) no raise is too small
raiseTooSmall_Never(c, cb, cur, betAmount) == FALSE

\* game.go:360: a raise below the minimum by a player who keeps chips
raiseTooSmall(c, cb, cur, betAmount) ==
    (cb + betAmount) - cur < MinRaise /\ c > betAmount

\* game.go:333-379
raiseOutcome(c, cb, cur, amount) ==
    LET betAmount == raiseBetAmount(c, amount)
        totalPlayerBet == cb + betAmount
    IN IF totalPlayerBet <= cur
       THEN [kind |-> "call", bet |-> invalidRaiseCallAmount(c, cb, cur),
             label |-> "calls (invalid raise)"]
       ELSE IF raiseTooSmall(c, cb, cur, betAmount)
       THEN [kind |-> "fold", bet |-> 0, label |-> "folds (invalid raise size)"]
       ELSE [kind |-> "raise", bet |-> betAmount, label |-> "raises to"]

\* game.go:304-380: the switch
Outcome(action, amount, c, cb, cur) ==
    CASE action = "fold" -> [kind |-> "fold", bet |-> 0, label |-> "folds"]
      [] action = "check" -> checkOutcome(cb, cur)
      [] action = "call" -> callOutcome(c, cb, cur, amount)
      [] action = "raise" -> raiseOutcome(c, cb, cur, amount)
      [] OTHER -> [kind |-> "none", bet |-> 0, label |-> ""]

\* what is observed of a decision point: "pass" when the player stays in the
\* hand and no chip moves (a check, a call of nothing, an unknown action)
logKind(o) ==
    IF o.kind \in {"check", "none"} \/ (o.kind = "call" /\ o.bet = 0)
    THEN "pass"
    ELSE o.kind

\* game.go:375-376: the count of a valid raise, before line 387 adds one
playersActedAfter(kind, acted) == (IF kind = "raise" THEN 0 ELSE acted) + 1

\* game.go:376: numToAct after a valid raise
numToActAfter(kind, n, fl) ==
    IF kind = "raise" THEN Cardinality(PlayersInHandOf(fl)) ELSE n

\* game.go:374: lastRaiser after the action
lastRaiserAfter(kind, raiser, idx) == IF kind = "raise" THEN idx ELSE raiser

\* (mutant) the high bet becomes the chips the raiser added
tableBetAfter_Added(kind, cb, bet, cur) == IF kind = "raise" THEN bet ELSE cur

\* game.go:370, 373: Table.CurrentBet after the action; a valid raise sets it
\* to totalPlayerBet
tableBetAfter(kind, cb, bet, cur) == IF kind = "raise" THEN cb + bet ELSE cur

\* game.go:273-295: the loop has reached the call of TakeTurn
TurnDue ==
    /\ pc = "loop"
    /\ playersActed < numToAct
    /\ Cardinality(getPlayersInHand) > 1
    /\ ~IsSkipped(currentPlayerIndex)
    /\ ~IsBackAtRaiser(lastRaiser, currentPlayerIndex)

\* game.go:300-388: the iteration in which TakeTurn returns (action, amount)
takeTurnWith(action, amount) ==
    /\ TurnDue
    /\   LET p == currentPlayerIndex
             o == Outcome(action, amount, chips[p], curBet[p], CurrentBet)
             moves == o.kind \in {"call", "raise"}
             fl == [folded EXCEPT ![p] = @ \/ o.kind = "fold"]
         IN /\ folded' = fl
            /\ chips' = IF moves
                        THEN [chips EXCEPT ![p] = RemoveChips(p, chips[p], o.bet)]
                        ELSE chips
            /\ curBet' = IF moves THEN [curBet EXCEPT ![p] = @ + o.bet] ELSE curBet
            /\ Pot' = IF moves THEN Pot + o.bet ELSE Pot
            /\ contrib' = IF moves THEN [contrib EXCEPT ![p] = @ + o.bet] ELSE contrib
            /\ CurrentBet' = tableBetAfter(o.kind, curBet[p], o.bet, CurrentBet)
            /\ lastRaiser' = lastRaiserAfter(o.kind, lastRaiser, p)
            /\ playersActed' = playersActedAfter(o.kind, playersActed)
            /\ numToAct' = numToActAfter(o.kind, numToAct, fl)
            /\ actTarget' = IF o.kind = "raise" THEN p ELSE actTarget
            /\ log' = Append(log, [p |-> p, kind |-> logKind(o)])
            /\ lastLogged' = IF o.kind = "none" THEN lastLogged ELSE o.label
            /\ loggedAmounts' = IF o.kind = "none" THEN <<>> ELSE <<o.bet>>
    /\ currentPlayerIndex' = (currentPlayerIndex + 1) % NumPlayers
    /\ UNCHANGED <<pc, handNo, hand, Round, community, deck, DealerPos,
                   SmallBlindPos, BigBlindPos, stage>>
    /\ UNCHANGED <<awards, handRank>>
    /\ UNCHANGED <<seats, cardVars>>

\* game.go:300: the player returns any action and any amount
takeTurn ==
    /\ \E action \in Actions, amount \in Amounts : takeTurnWith(action, amount)
    /\ UNCHANGED botVars

-----------------------------------------------------------------------------
(***************************************************************************)
(* playHand after a betting round that returned true: the next community   *)
(* cards and the next round, or the showdown after the fourth round.       *)
(***************************************************************************)
\* the calls of dealCommunityCards in playHand (game.go:120, 125, 130)
roundNameAfter(st) == CASE st = 1 -> "Flop" [] st = 2 -> "Turn" [] OTHER -> "River"
numCardsAfter(st) == IF st = 1 THEN 3 ELSE 1

\* (mutant) no card is burnt
dealCommunityDeck_NoBurn(d, numCards) ==
    IF d < numCards THEN [deck |-> d, dealt |-> FALSE]
    ELSE [deck |-> d - numCards, dealt |-> TRUE]

\* Game.dealCommunityCards: a burnt card, then numCards cards to the table.
\* dealt is FALSE when Deck.Deal or Deck.DealMultiple reports an error.
dealCommunityDeck(d, numCards) ==
    IF d = 0 THEN [deck |-> d, dealt |-> FALSE]
    ELSE IF d - 1 < numCards THEN [deck |-> d - 1, dealt |-> FALSE]
    ELSE [deck |-> d - 1 - numCards, dealt |-> TRUE]

dealCommunityCards ==
    /\ pc = "nextStage"
    /\ stage < 4
    /\ LET r == dealCommunityDeck(deck, numCardsAfter(stage))
       IN /\ deck' = r.deck
          /\ community' = IF r.dealt THEN community + numCardsAfter(stage) ELSE community
          /\ Round' = IF r.dealt THEN roundNameAfter(stage) ELSE Round
          /\ CurrentBet' = IF r.dealt THEN 0 ELSE CurrentBet
          /\ curBet' = IF r.dealt THEN [p \in Players |-> 0] ELSE curBet
          /\ dealErr' = ~r.dealt
    /\ stage' = stage + 1
    /\ pc' = "beginRound"
    /\ UNCHANGED <<handNo, chips, folded, hand, Pot, DealerPos, SmallBlindPos,
                   BigBlindPos>>
    /\ UNCHANGED <<roundVars, obsVars>>
    /\ UNCHANGED <<seats, cards, handCards, CommunityCards, dealtCards, shuffles>>
    /\ UNCHANGED botVars

\* game.go:133-136: the river round returned true
enterShowdown ==
    /\ pc = "nextStage"
    /\ stage = 4
    /\ pc' = "showdown"
    /\ UNCHANGED <<handNo, chips, folded, curBet, hand, Pot, CurrentBet, Round,
                   community, deck, DealerPos, SmallBlindPos, BigBlindPos, stage>>
    /\ UNCHANGED <<roundVars, obsVars>>
    /\ UNCHANGED <<seats, cardVars, botVars>>

\* (mutant) the winner is g.Players[0], folded or not
showdownWinner_Seat0(remaining) == FirstOf(Players)

\* game.go:426: the winner of the showdown is remainingPlayers[0]
showdownWinner(remaining) == FirstOf(remaining)

\* Game.showdown with Game.awardPot / Game.awardPotUncontested: the players
\* that are paid the pot (none when no player is left)
showdownPaid(remaining) ==
    IF remaining = {} THEN {} ELSE {showdownWinner(remaining)}

\* Game.awardPotUncontested: the pot is paid only when one player is left
uncontestedPaid(remaining) ==
    IF Cardinality(remaining) = 1 THEN {FirstOf(remaining)} ELSE {}

\* Game.awardPot / Game.awardPotUncontested: winner.AddChips(g.Pot); g.Pot = 0
awardChips(paid) ==
    [p \in Players |-> IF p \in paid THEN AddChips(chips[p], Pot) ELSE chips[p]]
awardPotLeft(paid) == IF paid = {} THEN Pot ELSE 0
awardRecord(how, paid) ==
    IF paid = {} THEN awards
    ELSE Append(awards, [how |-> how, amount |-> Pot, to |-> FirstOf(paid)])

\* Game.showdown.  The cards each remaining player holds are some hand of the
\* order of hand ranks; the code does not look at them.
showdown ==
    /\ pc = "showdown"
    /\ LET remaining == getPlayersInHand
           paid == showdownPaid(remaining)
       IN /\ chips' = awardChips(paid)
          /\ Pot' = awardPotLeft(paid)
          /\ awards' = awardRecord(IF Cardinality(remaining) = 1
                                   THEN "uncontested" ELSE "showdown", paid)
          /\ \E r \in [Players -> 1 .. MaxHandRank] :
               handRank' = [p \in Players |-> IF p \in remaining THEN r[p] ELSE 0]
    /\ pc' = "finish"
    /\ UNCHANGED <<handNo, folded, curBet, hand, CurrentBet, Round, community,
                   deck, DealerPos, SmallBlindPos, BigBlindPos, stage>>
    /\ UNCHANGED <<roundVars, contrib, log, lastLogged, loggedAmounts>>
    /\ UNCHANGED <<seats, cardVars, botVars>>

\* game.go:142-145: the end of playHand; the cards are no longer observed
finishHand ==
    /\ pc = "finish"
    /\ LET paid == uncontestedPaid(getPlayersInHand)
       IN /\ chips' = awardChips(paid)
          /\ Pot' = awardPotLeft(paid)
          /\ awards' = awardRecord("uncontested", paid)
    /\ handRank' = NoRanks
    /\ pc' = "handDone"
    /\ UNCHANGED <<handNo, folded, curBet, hand, CurrentBet, Round, community,
                   deck, DealerPos, SmallBlindPos, BigBlindPos, stage>>
    /\ UNCHANGED <<roundVars, contrib, log, lastLogged, loggedAmounts>>
    /\ UNCHANGED <<seats, cardVars, botVars>>

\* game.go:58-59 and the loop's i++: the dealer button moves on.  What was
\* observed of the hand is cleared.
rotateDealer ==
    /\ pc = "handDone"
    /\ DealerPos' = (DealerPos + 1) % NumPlayers
    /\ handNo' = handNo + 1
    /\ contrib' = NoChips
    /\ awards' = <<>>
    /\ pc' = "start"
    /\ UNCHANGED <<chips, folded, curBet, hand, Pot, CurrentBet, Round, community,
                   deck, SmallBlindPos, BigBlindPos, stage>>
    /\ UNCHANGED <<roundVars, handRank, log, lastLogged, loggedAmounts>>
    /\ UNCHANGED <<seats, cardVars, botVars>>

-----------------------------------------------------------------------------
Next ==
    \/ StartHand
    \/ GameOver
    \/ resetForNewHand
    \/ determineBlinds
    \/ postBlinds
    \/ dealHands
    \/ beginPreflop
    \/ beginRound
    \/ seekSkip
    \/ seekFound
    \/ loopDone
    \/ onePlayerLeft
    \/ skipPlayer
    \/ backAtRaiser
    \/ takeTurn
    \/ dealCommunityCards
    \/ enterShowdown
    \/ showdown
    \/ finishHand
    \/ rotateDealer

Spec == Init /\ [][Next]_vars

-----------------------------------------------------------------------------
(***************************************************************************)
(* determineBlinds on its own, as TestDetermineBlinds runs it: a game of   *)
(* any number of seats from 2 to MaxSeats is made, the dealer position is  *)
(* set to any seat and determineBlinds is called, again and again.  Only   *)
(* the number of seats and the three positions matter here; the players'   *)
(* state stays as NewGame left it.                                         *)
(***************************************************************************)
InitBlinds ==
    /\ pc = "newGame"
    /\ handNo = 0
    /\ chips = [p \in Players |-> MaxChips]
    /\ folded = [p \in Players |-> FALSE]
    /\ curBet = [p \in Players |-> 0]
    /\ hand = [p \in Players |-> 0]
    /\ Pot = 0
    /\ CurrentBet = 0
    /\ Round = ""
    /\ community = 0
    /\ deck = DeckSize
    /\ DealerPos = 0
    /\ SmallBlindPos = 0
    /\ BigBlindPos = 0
    /\ stage = 0
    /\ seats \in 2 .. MaxSeats
    /\ lastRaiser = -1
    /\ playersActed = 0
    /\ numToAct = 0
    /\ currentPlayerIndex = 0
    /\ actTarget = 0
    /\ contrib = NoChips
    /\ awards = <<>>
    /\ handRank = NoRanks
    /\ log = <<>>
    /\ lastLogged = ""
    /\ loggedAmounts = <<>>
    /\ BotsNotFollowed
    /\ CardsNotFollowed

\* game.go:618, 623, 630, 635, 640 (game.DealerPos = ...): the dealer position
\* is set before determineBlinds is called
setDealerPos ==
    /\ pc \in {"newGame", "postBlinds"}
    /\ \E d \in 0 .. (seats - 1) : DealerPos' = d
    /\ pc' = "blindPos"
    /\ UNCHANGED <<handNo, chips, folded, curBet, hand, Pot, CurrentBet, Round,
                   community, deck, SmallBlindPos, BigBlindPos, stage, seats>>
    /\ UNCHANGED <<roundVars, obsVars, cardVars, botVars>>

NextBlinds ==
    \/ setDealerPos
    \/ determineBlinds

SpecBlinds == InitBlinds /\ [][NextBlinds]_vars

-----------------------------------------------------------------------------
(***************************************************************************)
(* dealHands on its own, as TestDealHands runs it: a game is made of       *)
(* players holding any of Stacks and dealHands is called on the fresh deck *)
(* with any number of cards from 0 to MaxDeal.                             *)
(***************************************************************************)
InitDeal ==
    /\ pc = "deal"
    /\ handNo = 0
    /\ chips \in [Players -> Stacks]
    /\ folded = [p \in Players |-> FALSE]
    /\ curBet = [p \in Players |-> 0]
    /\ hand = [p \in Players |-> 0]
    /\ Pot = 0
    /\ CurrentBet = 0
    /\ Round = ""
    /\ community = 0
    /\ deck = DeckSize
    /\ DealerPos = 0
    /\ SmallBlindPos = 0
    /\ BigBlindPos = 0
    /\ stage = 0
    /\ seats = NumPlayers
    /\ lastRaiser = -1
    /\ playersActed = 0
    /\ numToAct = 0
    /\ currentPlayerIndex = 0
    /\ actTarget = 0
    /\ contrib = NoChips
    /\ awards = <<>>
    /\ handRank = NoRanks
    /\ log = <<>>
    /\ lastLogged = ""
    /\ loggedAmounts = <<>>
    /\ BotsNotFollowed
    /\ CardsNotFollowed

\* game.go:727 (game.dealHands(numCardsToDeal))
dealAnyHands == \E numCards \in 0 .. MaxDeal : dealHandsWith(numCards)

NextDeal == dealAnyHands

SpecDeal == InitDeal /\ [][NextDeal]_vars

-----------------------------------------------------------------------------
(***************************************************************************)
(* The deck (deck.go).  A card is a record of its suit and rank; a deck is *)
(* the sequence Deck.cards, the top card last.                             *)
(***************************************************************************)
Card(suit, rank) == [Suit |-> suit, Rank |-> rank]

\* the cards of the deck: every suit with every rank
AllCards == {Card(suit, rank) : suit \in Spade .. Club, rank \in Two .. Ace}

\* Deck.Deal returns types.Card{} with its error
ZeroCard == Card(0, 0)

\* deck.go:23-30: the inner loop appends the ranks Two..lastRank of a suit
RanksOfSuit(suit, lastRank) ==
    [i \in 1 .. (lastRank - Two + 1) |-> Card(suit, Two + (i - 1))]

\* deck.go:22-31: the outer loop, from suit on, up to Club
RECURSIVE SuitsFrom(_, _)
SuitsFrom(suit, lastRank) ==
    IF suit > Club THEN <<>>
    ELSE RanksOfSuit(suit, lastRank) \o SuitsFrom(suit + 1, lastRank)

\* (mutant) the rank loop stops before the ace
NewDeck_BelowAce == SuitsFrom(Spade, Ace - 1)

\* NewDeck
NewDeck == SuitsFrom(Spade, Ace)

\* (mutant) the swap writes one of the two slots only
Swap_OneSlot(cs, i, j) == [cs EXCEPT ![i + 1] = cs[j + 1]]

\* deck.go:38-40: the swap function handed to rand.Shuffle (i, j count from 0)
Swap(cs, i, j) == [cs EXCEPT ![i + 1] = cs[j + 1], ![j + 1] = cs[i + 1]]

\* rand.Shuffle(n, swap) draws, for i = n-1 down to 1, an index j in 0..i and
\* calls swap(i, j).  The draws are an input: the first MaxSwaps of them fall
\* at most MaxDraw below i, the others are i itself.
ShuffleDraws(n) ==
    LET free == {i \in 1 .. (n - 1) : i >= n - MaxSwaps}
    IN {[i \in 1 .. (n - 1) |-> IF i \in free THEN Max(0, i - f[i]) ELSE i] :
          f \in [free -> 0 .. MaxDraw]}

RECURSIVE ShuffleFrom(_, _, _)
ShuffleFrom(cs, i, js) ==
    IF i <= 0 THEN cs ELSE ShuffleFrom(Swap(cs, i, js[i]), i - 1, js)

\* Deck.Shuffle with the draws js
Shuffle(cs, js) == ShuffleFrom(cs, Len(cs) - 1, js)

\* (mutant) the first card is returned, the last one removed
Deal_FirstCard(cs) ==
    IF Len(cs) = 0 THEN [card |-> ZeroCard, cards |-> cs, err |-> TRUE]
    ELSE [card |-> cs[1], cards |-> SubSeq(cs, 1, Len(cs) - 1), err |-> FALSE]

\* Deck.Deal: the card returned, the deck left and whether an error is returned
Deal(cs) ==
    IF Len(cs) = 0 THEN [card |-> ZeroCard, cards |-> cs, err |-> TRUE]
    ELSE [card |-> cs[Len(cs)], cards |-> SubSeq(cs, 1, Len(cs) - 1),
          err |-> FALSE]

\* deck.go:61-67: the loop of DealMultiple from its i-th card on
RECURSIVE DealFrom(_, _, _, _)
DealFrom(cs, i, numCards, out) ==
    IF i >= numCards THEN [out |-> out, cards |-> cs, err |-> FALSE]
    ELSE LET r == Deal(cs)
         IN IF r.err THEN [out |-> <<>>, cards |-> r.cards, err |-> TRUE]
            ELSE DealFrom(r.cards, i + 1, numCards, Append(out, r.card))

\* (mutant) the deck is not measured before the cards are dealt
DealMultiple_Unchecked(cs, numCards) == DealFrom(cs, 0, numCards, <<>>)

\* Deck.DealMultiple: the cards returned (none with an error), the deck left
DealMultiple(cs, numCards) ==
    IF Len(cs) < numCards THEN [out |-> <<>>, cards |-> cs, err |-> TRUE]
    ELSE DealFrom(cs, 0, numCards, <<>>)

(***************************************************************************)
(* A deck on its own, as deck_test.go runs it: a new deck is shuffled,     *)
(* dealt from one card or several cards at a time, emptied or replaced by  *)
(* a new deck, in any order.                                               *)
(***************************************************************************)
tableVars == <<handNo, chips, folded, curBet, hand, Pot, CurrentBet, Round,
               community, deck, DealerPos, SmallBlindPos, BigBlindPos, stage,
               seats>>

\* deck_test.go:10 (deck := NewDeck()); no game is played
InitDeck ==
    /\ pc = "newDeck"
    /\ handNo = 0
    /\ chips = [p \in Players |-> MaxChips]
    /\ folded = [p \in Players |-> FALSE]
    /\ curBet = [p \in Players |-> 0]
    /\ hand = [p \in Players |-> 0]
    /\ Pot = 0
    /\ CurrentBet = 0
    /\ Round = ""
    /\ community = 0
    /\ deck = DeckSize
    /\ DealerPos = 0
    /\ SmallBlindPos = 0
    /\ BigBlindPos = 0
    /\ stage = 0
    /\ seats = NumPlayers
    /\ lastRaiser = -1
    /\ playersActed = 0
    /\ numToAct = 0
    /\ currentPlayerIndex = 0
    /\ actTarget = 0
    /\ contrib = NoChips
    /\ awards = <<>>
    /\ handRank = NoRanks
    /\ log = <<>>
    /\ lastLogged = ""
    /\ loggedAmounts = <<>>
    /\ BotsNotFollowed
    /\ cards = NewDeck
    /\ handCards = [p \in Players |-> <<>>]
    /\ CommunityCards = <<>>
    /\ dealtCards = <<>>
    /\ dealErr = FALSE
    /\ shuffles = 0

\* Deck.Reset, and deck = NewDeck() (deck_test.go:119)
callNewDeck ==
    /\ pc # "newDeck"
    /\ cards' = NewDeck
    /\ dealtCards' = <<>>
    /\ dealErr' = FALSE
    /\ pc' = "newDeck"
    /\ UNCHANGED <<botVars, tableVars, roundVars, obsVars, handCards, CommunityCards,
                   shuffles>>

\* deck2.Shuffle() (deck_test.go:31)
callShuffle ==
    /\ shuffles < MaxShuffles
    /\ \E js \in ShuffleDraws(Len(cards)) : cards' = Shuffle(cards, js)
    /\ shuffles' = shuffles + 1
    /\ dealtCards' = <<>>
    /\ dealErr' = FALSE
    /\ pc' = "shuffled"
    /\ UNCHANGED <<botVars, tableVars, roundVars, obsVars, handCards, CommunityCards>>

\* deck.Deal() (deck_test.go:70, 92)
callDeal ==
    /\ LET r == Deal(cards)
       IN /\ cards' = r.cards
          /\ dealtCards' = <<r.card>>
          /\ dealErr' = r.err
    /\ pc' = "dealt"
    /\ UNCHANGED <<botVars, tableVars, roundVars, obsVars, handCards, CommunityCards,
                   shuffles>>

\* deck.DealMultiple(numToDeal) (deck_test.go:105, 121)
callDealMultipleWith(numCards) ==
    /\ LET r == DealMultiple(cards, numCards)
       IN /\ cards' = r.cards
          /\ dealtCards' = r.out
          /\ dealErr' = r.err
    /\ pc' = "dealtMultiple"
    /\ UNCHANGED <<botVars, tableVars, roundVars, obsVars, handCards, CommunityCards,
                   shuffles>>

callDealMultiple == \E numCards \in 0 .. MaxDealN : callDealMultipleWith(numCards)

\* deck.cards = []types.Card{} (deck_test.go:91)
emptyDeck ==
    /\ pc # "emptied"
    /\ cards' = <<>>
    /\ dealtCards' = <<>>
    /\ dealErr' = FALSE
    /\ pc' = "emptied"
    /\ UNCHANGED <<botVars, tableVars, roundVars, obsVars, handCards, CommunityCards,
                   shuffles>>

NextDeck ==
    \/ callNewDeck
    \/ callShuffle
    \/ callDeal
    \/ callDealMultiple
    \/ emptyDeck

SpecDeck == InitDeck /\ [][NextDeck]_vars

(***************************************************************************)
(* The cards of playHand: resetForNewHand, Shuffle, dealHands and the      *)
(* three calls of dealCommunityCards, hand after hand.  The betting rounds *)
(* between them touch no card; they are left out here, they end the hand   *)
(* after any of its rounds and move the chips the next hand starts with.   *)
(***************************************************************************)
\* NewGame: a new deck, nothing dealt
InitCards ==
    /\ pc = "reset"
    /\ handNo = 0
    /\ chips \in [Players -> Stacks]
    /\ folded = [p \in Players |-> FALSE]
    /\ curBet = [p \in Players |-> 0]
    /\ hand = [p \in Players |-> 0]
    /\ Pot = 0
    /\ CurrentBet = 0
    /\ Round = ""
    /\ community = 0
    /\ deck = DeckSize
    /\ DealerPos = 0
    /\ SmallBlindPos = 0
    /\ BigBlindPos = 0
    /\ stage = 0
    /\ seats = NumPlayers
    /\ lastRaiser = -1
    /\ playersActed = 0
    /\ numToAct = 0
    /\ currentPlayerIndex = 0
    /\ actTarget = 0
    /\ contrib = NoChips
    /\ awards = <<>>
    /\ handRank = NoRanks
    /\ log = <<>>
    /\ lastLogged = ""
    /\ loggedAmounts = <<>>
    /\ BotsNotFollowed
    /\ cards = NewDeck
    /\ handCards = [p \in Players |-> <<>>]
    /\ CommunityCards = <<>>
    /\ dealtCards = <<>>
    /\ dealErr = FALSE
    /\ shuffles = 0

\* the card counts the hand engine follows
CardCounts ==
    /\ deck' = Len(cards')
    /\ hand' = [p \in Players |-> Len(handCards'[p])]
    /\ community' = Len(CommunityCards')

\* (mutant) the cards of the last hand stay in the player's hand
ResetHand_Kept(h) == h

\* Player.ResetForNewHand: p.Hand = &types.Hand{}
ResetHand(h) == <<>>

\* Game.resetForNewHand: a new deck, an empty table, empty hands
resetCards ==
    /\ pc = "reset"
    /\ cards' = NewDeck
    /\ CommunityCards' = <<>>
    /\ handCards' = [p \in Players |-> ResetHand(handCards[p])]
    /\ Round' = ""
    /\ stage' = 0
    /\ pc' = "shuffle"
    /\ UNCHANGED <<handNo, chips, folded, curBet, Pot, CurrentBet, DealerPos,
                   SmallBlindPos, BigBlindPos, seats>>
    /\ UNCHANGED <<botVars, roundVars, obsVars, dealtCards, dealErr, shuffles>>
    /\ CardCounts

\* playHand step 2 (game.go:103): g.Deck.Shuffle()
shuffleCards ==
    /\ pc = "shuffle"
    /\ \E js \in ShuffleDraws(Len(cards)) : cards' = Shuffle(cards, js)
    /\ pc' = "deal"
    /\ UNCHANGED <<botVars, tableVars, roundVars, obsVars>>
    /\ UNCHANGED <<handCards, CommunityCards, dealtCards, dealErr, shuffles>>

\* game.go:205-214: one pass over g.Players from seat p on; a player with
\* chips is dealt the card Deck.Deal returns, and a Deal that fails ends
\* the dealing
RECURSIVE DealPassCards(_, _, _)
DealPassCards(p, hc, cs) ==
    IF p >= NumPlayers THEN [handCards |-> hc, cards |-> cs, failed |-> FALSE]
    ELSE IF ~isDealtTo(p) THEN DealPassCards(p + 1, hc, cs)
    ELSE LET r == Deal(cs)
         IN IF r.err THEN [handCards |-> hc, cards |-> r.cards, failed |-> TRUE]
            ELSE DealPassCards(p + 1, [hc EXCEPT ![p] = Append(@, r.card)],
                               r.cards)

\* Game.dealHands: numCards passes
RECURSIVE DealLoopCards(_, _, _, _)
DealLoopCards(i, numCards, hc, cs) ==
    IF i >= numCards THEN [handCards |-> hc, cards |-> cs]
    ELSE LET r == DealPassCards(0, hc, cs)
         IN IF r.failed THEN [handCards |-> r.handCards, cards |-> r.cards]
            ELSE DealLoopCards(i + 1, numCards, r.handCards, r.cards)

\* playHand step 5 (game.go:111): g.dealHands(2)
dealHandCards ==
    /\ pc = "deal"
    /\ LET r == DealLoopCards(0, 2, handCards, cards)
       IN /\ handCards' = r.handCards
          /\ cards' = r.cards
    /\ Round' = "Pre-flop"
    /\ stage' = 1
    /\ pc' = "nextStage"
    /\ UNCHANGED <<handNo, chips, folded, curBet, Pot, CurrentBet, DealerPos,
                   SmallBlindPos, BigBlindPos, seats>>
    /\ UNCHANGED <<botVars, roundVars, obsVars, CommunityCards, dealtCards, dealErr,
                   shuffles>>
    /\ CardCounts

\* Game.dealCommunityCards: the deck and the table after the burnt card and
\* the numCards cards; an error of Deal or DealMultiple ends the call
dealCommunityTable(cs, table, numCards) ==
    LET burn == Deal(cs)
    IN IF burn.err THEN [cards |-> burn.cards, table |-> table, dealt |-> FALSE]
       ELSE LET r == DealMultiple(burn.cards, numCards)
            IN IF r.err
               THEN [cards |-> r.cards, table |-> table, dealt |-> FALSE]
               ELSE [cards |-> r.cards, table |-> table \o r.out,
                     dealt |-> TRUE]

\* playHand steps 7 to 9 (game.go:120, 125, 130), after a betting round that
\* returned true
dealCommunityTableCards ==
    /\ pc = "nextStage"
    /\ stage < 4
    /\ LET r == dealCommunityTable(cards, CommunityCards, numCardsAfter(stage))
       IN /\ cards' = r.cards
          /\ CommunityCards' = r.table
          /\ Round' = IF r.dealt THEN roundNameAfter(stage) ELSE Round
    /\ stage' = stage + 1
    /\ UNCHANGED <<pc, handNo, chips, folded, curBet, Pot, CurrentBet, DealerPos,
                   SmallBlindPos, BigBlindPos, seats>>
    /\ UNCHANGED <<botVars, roundVars, obsVars, handCards, dealtCards, dealErr, shuffles>>
    /\ CardCounts

\* playHand returns (after the showdown, or after a betting round that
\* returned false) and Start's loop goes on to the next hand (game.go:51-61)
\* with the chips the hand left
nextHandCards ==
    /\ pc = "nextStage"
    /\ handNo + 1 < MaxCardHands
    /\ handNo' = handNo + 1
    /\ chips' \in [Players -> Stacks]
    /\ pc' = "reset"
    /\ UNCHANGED <<folded, curBet, hand, Pot, CurrentBet, Round, community, deck,
                   DealerPos, SmallBlindPos, BigBlindPos, stage, seats>>
    /\ UNCHANGED <<roundVars, obsVars, cardVars, botVars>>

NextCards ==
    \/ resetCards
    \/ shuffleCards
    \/ dealHandCards
    \/ dealCommunityTableCards
    \/ nextHandCards

SpecCards == InitCards /\ [][NextCards]_vars

(***************************************************************************)
(* Game.showdown on the cards: the hand has reached its showdown (every    *)
(* player called the big blind and checked the flop, the turn and the      *)
(* river, or folded after the flop), the board is 3d 4c 5s 9d Kc and the   *)
(* hole cards are any deal of six cards to the three seats.                *)
(***************************************************************************)
Board == <<Card(Diamond, 3), Card(Club, 4), Card(Spade, 5), Card(Diamond, 9),
           Card(Club, 13)>>
HolePool == <<Card(Spade, Ace), Card(Heart, 2), Card(Heart, 6), Card(Club, 7),
              Card(Spade, 2), Card(Diamond, 6)>>
Burnt == {Card(Club, 2), Card(Club, 3), Card(Club, 6)}

\* the deals of two cards of the pool to every player
HoleDeals ==
    LET pairs == {<<HolePool[a], HolePool[b]>> :
                    a, b \in 1 .. Len(HolePool)} \ {<<c, c>> : c \in AllCards}
        ordered == {pr \in pairs :
                      \E a, b \in 1 .. Len(HolePool) :
                        a < b /\ pr = <<HolePool[a], HolePool[b]>>}
    IN {h \in [Players -> ordered] :
          \A p, q \in Players :
            p # q => {h[p][1], h[p][2]} \cap {h[q][1], h[q][2]} = {}}

InitShowdown ==
    /\ pc = "showdown"
    /\ handNo = 0
    /\ chips = [p \in Players |-> MaxChips - BigBlind]
    /\ folded \in {f \in [Players -> BOOLEAN] :
                     Cardinality(PlayersInHandOf(f)) >= NumPlayers - 1}
    /\ curBet = [p \in Players |-> 0]
    /\ hand = [p \in Players |-> 2]
    /\ Pot = NumPlayers * BigBlind
    /\ CurrentBet = 0
    /\ Round = "River"
    /\ community = 5
    /\ deck = DeckSize - 2 * NumPlayers - 8
    /\ DealerPos = 0
    /\ SmallBlindPos = 1
    /\ BigBlindPos = 2
    /\ stage = 4
    /\ seats = NumPlayers
    /\ lastRaiser = -1
    /\ playersActed = 0
    /\ numToAct = 0
    /\ currentPlayerIndex = 0
    /\ actTarget = 0
    /\ contrib = [p \in Players |-> BigBlind]
    /\ awards = <<>>
    /\ handRank = NoRanks
    /\ log = <<>>
    /\ lastLogged = ""
    /\ loggedAmounts = <<>>
    /\ BotsNotFollowed
    /\ handCards \in HoleDeals
    /\ CommunityCards = Board
    /\ cards = SelectSeq(NewDeck,
                 LAMBDA c : /\ c \notin Burnt
                            /\ \A i \in 1 .. Len(Board) : Board[i] # c
                            /\ \A p \in Players :
                                 handCards[p][1] # c /\ handCards[p][2] # c)
    /\ dealtCards = <<>>
    /\ dealErr = FALSE
    /\ shuffles = 0

NextShowdown ==
    \/ showdown
    \/ finishHand

SpecShowdown == InitShowdown /\ [][NextShowdown]_vars

(***************************************************************************)
(* A crowded table.  NewGame takes any number of players, and with 24 or   *)
(* more of them the 52 cards do not last for a hand.  The first NumPlayers *)
(* seats are followed as in Spec, each with a stack of one chip more than   *)
(* the big blind; the seats beyond them hold chips, are                    *)
(* dealt cards after them in every pass of dealHands and fold at their     *)
(* first turn (pre-flop they act before seat 0), after which the rounds    *)
(* pass over them like over any folded player.                             *)
(***************************************************************************)
InitCrowd ==
    /\ pc = "start"
    /\ handNo = 0
    /\ chips = [p \in Players |-> BigBlind + 1]
    /\ folded = [p \in Players |-> FALSE]
    /\ curBet = [p \in Players |-> 0]
    /\ hand = [p \in Players |-> 0]
    /\ Pot = 0
    /\ CurrentBet = 0
    /\ Round = ""
    /\ community = 0
    /\ deck = DeckSize
    /\ DealerPos = 0
    /\ SmallBlindPos = 0
    /\ BigBlindPos = 0
    /\ stage = 0
    /\ seats \in MinCrowd .. MaxCrowd
    /\ lastRaiser = -1
    /\ playersActed = 0
    /\ numToAct = 0
    /\ currentPlayerIndex = 0
    /\ actTarget = 0
    /\ contrib = NoChips
    /\ awards = <<>>
    /\ handRank = NoRanks
    /\ log = <<>>
    /\ lastLogged = ""
    /\ loggedAmounts = <<>>
    /\ BotsNotFollowed
    /\ CardsNotFollowed

SpecCrowd == InitCrowd /\ [][Next]_vars

-----------------------------------------------------------------------------
(***************************************************************************)
(* What the properties below speak of.                                     *)
(***************************************************************************)
\* all the chips of the game: the stacks and the pot
TotalChips == SumOver(chips, Players) + Pot

\* the chips the players moved into the pot this hand
TotalContrib == SumOver(contrib, Players)

RECURSIVE WonUpTo(_, _)
WonUpTo(p, n) ==
    IF n = 0 THEN 0
    ELSE (IF awards[n].to = p THEN awards[n].amount ELSE 0) + WonUpTo(p, n - 1)

\* the chips paid to p from the pot this hand
Won(p) == WonUpTo(p, Len(awards))

\* the hand was settled by Game.showdown among two or more players
ShowdownPaid == awards # <<>> /\ awards[1].how = "showdown"

\* the hand is over: playHand has returned
HandOver == pc = "handDone"

\* the share of the pot that a contribution of c is eligible for
CappedPot(c) == SumOver([q \in Players |-> Min(contrib[q], c)], Players)

\* the decision points since the last accepted raise, that raise included
LastRaiseAt ==
    LET R == {i \in 1 .. Len(log) : log[i].kind = "raise"}
    IN IF R = {} THEN 0 ELSE CHOOSE i \in R : \A j \in R : j <= i
ActedSinceRaise == {log[i].p : i \in Max(LastRaiseAt, 1) .. Len(log)}

\* the loop of runBettingRound is about to end and the round to return true
RoundReturnsTrue ==
    /\ pc = "loop"
    /\ \/ ~(playersActed < numToAct)
       \/ /\ ~IsSkipped(currentPlayerIndex)
          /\ IsBackAtRaiser(lastRaiser, currentPlayerIndex)
    /\ roundReturn(folded)

-----------------------------------------------------------------------------
(***************************************************************************)
(* C1.  Chip conservation over a hand: no step of the game changes the sum *)
(* of the pot and all players' chips, and when playHand has returned the   *)
(* pot is 0 and the chips paid out are the chips contributed in the hand.  *)
(***************************************************************************)
C1_ChipConservation ==
    /\ [][TotalChips' = TotalChips]_vars
    /\ [](HandOver => Pot = 0 /\ SumOver([p \in Players |-> Won(p)], Players) = TotalContrib)

\* a hand with a raise in it has been paid out
C1_Witness ==
    /\ HandOver
    /\ TotalContrib > SmallBlind + BigBlind
    /\ \E p \in Players : Won(p) = TotalContrib

\* p had no chips left when the pot was paid
WasAllIn(p) == chips[p] = Won(p)

(***************************************************************************)
(* C2.  Side-pot eligibility cap: at showdown a player who went all-in and *)
(* whose contribution for the hand is c is paid at most the sum over all   *)
(* players q of min(contribution(q), c).                                   *)
(***************************************************************************)
C2_SidePotCap ==
    (pc = "finish" /\ ShowdownPaid)
    => \A p \in Players :
         (WasAllIn(p) /\ contrib[p] > 0) => Won(p) <= CappedPot(contrib[p])

(***************************************************************************)
(* C3.  A player who folded is never paid from the pot, folding moves no   *)
(* chips (what the player contributed stays in the pot), and at the end of *)
(* the hand all the chips contributed are paid to players who did not fold.*)
(***************************************************************************)
C3_FoldedNeverPaid ==
    /\ [](\A i \in 1 .. Len(awards) : ~folded[awards[i].to])
    /\ [][\A p \in Players :
            (pc = "loop" /\ ~folded[p] /\ folded'[p])
                => Pot' = Pot /\ chips' = chips /\ contrib' = contrib]_vars
    /\ [](HandOver =>
            /\ \A p \in Players : folded[p] => Won(p) = 0
            /\ SumOver([p \in Players |-> IF folded[p] THEN 0 ELSE Won(p)], Players)
                 = TotalContrib)

\* a player folded after putting chips in, and another player was paid them
C3_Witness ==
    /\ HandOver
    /\ \E p, q \in Players :
         /\ folded[p] /\ contrib[p] > 0
         /\ ~folded[q] /\ Won(q) = TotalContrib /\ Won(q) > contrib[q]

(***************************************************************************)
(* C4.  At a showdown the pot is paid to the players holding the best hand *)
(* among the eligible players: a player holding a strictly worse hand than *)
(* another eligible player is paid nothing.  (Stated for a showdown whose  *)
(* remaining players all contributed the same, so that all of them are     *)
(* eligible for all of the pot.)                                           *)
(***************************************************************************)
C4_BestHandWins ==
    (pc = "finish" /\ ShowdownPaid
        /\ \A p, q \in getPlayersInHand : contrib[p] = contrib[q])
    => \A p, q \in getPlayersInHand : handRank[p] < handRank[q] => Won(p) = 0

\* the distinct contribution levels of the hand, and the pots they make
ContribLevels == {contrib[p] : p \in Players} \ {c \in Int : c <= 0}

RECURSIVE LayerPots(_, _)
LayerPots(prev, L) ==
    IF L = {} THEN <<>>
    ELSE LET level == CHOOSE l \in L : \A m \in L : l <= m
         IN <<[amount |-> (level - prev)
                            * Cardinality({p \in Players : contrib[p] >= level}),
               eligible |-> {p \in getPlayersInHand : contrib[p] >= level}]>>
            \o LayerPots(level, L \ {level})

(***************************************************************************)
(* C5.  Side-pot layering: settlement pays one pot per distinct            *)
(* contribution level; for consecutive levels (prev, level) the pot is     *)
(* (level - prev) times the number of players who contributed at least     *)
(* level, and it goes to a non-folded player who contributed at least      *)
(* level.                                                                  *)
(***************************************************************************)
C5_SidePotLayers ==
    (pc = "finish" /\ ShowdownPaid)
    => LET pots == LayerPots(0, ContribLevels)
       IN /\ Len(awards) = Len(pots)
          /\ \A i \in 1 .. Len(awards) :
               i <= Len(pots) =>
                 /\ awards[i].amount = pots[i].amount
                 /\ awards[i].to \in pots[i].eligible

(***************************************************************************)
(* C6.  Tie split: when the two players of a showdown hold equal hands the *)
(* pot is split evenly between them, the odd chip going to one of them.    *)
(* (Stated for two players who contributed the same.)                      *)
(***************************************************************************)
C6_TieSplit ==
    \A a, b \in Players :
      (/\ pc = "finish" /\ ShowdownPaid
       /\ a < b /\ getPlayersInHand = {a, b}
       /\ contrib[a] = contrib[b]
       /\ handRank[a] = handRank[b])
      => /\ Won(a) + Won(b) = TotalContrib
         /\ Won(a) - Won(b) \in {-1, 0, 1}

\* all players but one have folded
OnePlayerLeft == Cardinality(getPlayersInHand) = 1

(***************************************************************************)
(* C7.  Uncontested fold: once all players but one have folded in a        *)
(* betting round, the next step leaves the round with the hand over, the   *)
(* showdown is never entered with a single player, and at the end of the   *)
(* hand that player has been paid every chip contributed and the pot is 0. *)
(***************************************************************************)
C7_UncontestedFold ==
    /\ [][(pc = "loop" /\ OnePlayerLeft) => pc' = "finish"]_vars
    /\ [](pc \in {"nextStage", "showdown"} => ~OnePlayerLeft)
    /\ []((HandOver /\ OnePlayerLeft) =>
            /\ Pot = 0
            /\ Len(awards) = 1
            /\ awards[1].how = "uncontested"
            /\ awards[1].to \in getPlayersInHand
            /\ awards[1].amount = TotalContrib)

\* all but one folded after a raise, and the last player got the pot
C7_Witness ==
    /\ HandOver /\ OnePlayerLeft
    /\ awards # <<>>
    /\ awards[1].amount > SmallBlind + BigBlind
    /\ Won(awards[1].to) = TotalContrib

(***************************************************************************)
(* C8.  When runBettingRound returns true, every non-folded player who     *)
(* still has chips had a decision point since the last accepted raise and  *)
(* that player's round bet equals Table.CurrentBet.                        *)
(***************************************************************************)
C8_RoundClosed ==
    RoundReturnsTrue =>
      \A p \in Players :
        (~folded[p] /\ chips[p] > 0)
          => p \in ActedSinceRaise /\ curBet[p] = CurrentBet

\* between two decision points of a raiser there is another accepted raise
RaiserNotAskedAgain ==
    \A i, j \in 1 .. Len(log) :
      (i < j /\ log[i].kind = "raise" /\ log[j].p = log[i].p)
        => \E k \in (i + 1) .. (j - 1) : log[k].kind = "raise"

\* the round so far: A checked, B raised, C called, A called
CheckRaiseCallCall(A, B, C) ==
    /\ Cardinality({A, B, C}) = 3
    /\ getPlayersInHand = {A, B, C}
    /\ log = <<[p |-> A, kind |-> "pass"], [p |-> B, kind |-> "raise"],
               [p |-> C, kind |-> "call"], [p |-> A, kind |-> "call"]>>

(***************************************************************************)
(* C9.  Action closes at the last aggressor: a player whose raise was      *)
(* accepted has no later decision point in the round unless another raise  *)
(* was accepted in between; and in a round of three players where A        *)
(* checks, B raises, C calls and A calls, the loop ends after A's second   *)
(* action.                                                                 *)
(***************************************************************************)
C9_ClosesAtAggressor ==
    /\ pc = "loop" => RaiserNotAskedAgain
    /\ \A A, B, C \in Players :
         (pc = "loop" /\ CheckRaiseCallCall(A, B, C)) => ~(playersActed < numToAct)

\* the round of the example has been played
C9_Witness ==
    /\ pc = "loop"
    /\ \E A, B, C \in Players : CheckRaiseCallCall(A, B, C)

(***************************************************************************)
(* C10.  In a betting round in which no raise is accepted no player is     *)
(* given a second decision point.                                          *)
(***************************************************************************)
C10_OneTurnEach ==
    (pc = "loop" /\ LastRaiseAt = 0)
    => \A i, j \in 1 .. Len(log) : i < j => log[i].p # log[j].p

(***************************************************************************)
(* C11.  Once only one non-folded player remains the hand ends at once:    *)
(* from then on no player is given a decision point and nobody folds, no   *)
(* card leaves the deck and no community card is dealt, the betting round  *)
(* returns false (playHand goes to its end, not to another round), and     *)
(* the only steps left are the end of playHand.                            *)
(***************************************************************************)
C11_HandEndsAtOnce ==
    [][(OnePlayerLeft /\ pc \in {"loop", "finish"})
         => /\ Len(log') <= Len(log)
            /\ folded' = folded
            /\ deck' = deck /\ community' = community /\ hand' = hand
            /\ stage' = stage /\ Round' = Round
            /\ pc = "loop" => pc' = "finish"
            /\ pc = "finish" => pc' = "handDone"]_vars

\* the hand ended before the flop: one player left, no community card, paid
C11_Witness ==
    /\ HandOver /\ OnePlayerLeft
    /\ stage = 1 /\ community = 0
    /\ awards # <<>>

\* the player of the round's last decision point
LastActor == log[Len(log)].p

(***************************************************************************)
(* C12.  Whatever amount comes with it, a returned check moves no chips    *)
(* and changes neither round bet nor Table.CurrentBet; the player stays in *)
(* the hand (the check is accepted and logged as a check) only if the      *)
(* player's round bet equals Table.CurrentBet, and when Table.CurrentBet   *)
(* exceeds the player's round bet the player is folded.                    *)
(***************************************************************************)
C12_CheckLegality ==
    [][\A amount \in Amounts :
         takeTurnWith("check", amount) =>
           LET p == currentPlayerIndex
           IN /\ chips' = chips /\ Pot' = Pot /\ contrib' = contrib
              /\ curBet' = curBet /\ CurrentBet' = CurrentBet
              /\ ~folded'[p] => (curBet[p] = CurrentBet /\ lastLogged' = "checks")
              /\ CurrentBet > curBet[p]
                   => (folded'[p] /\ lastLogged' = "folds (error)")]_vars

\* a check was returned against a bet and the player was folded
C12_Witness ==
    /\ pc = "loop" /\ log # <<>>
    /\ lastLogged = "folds (error)"
    /\ folded[LastActor]
    /\ curBet[LastActor] < CurrentBet

(***************************************************************************)
(* C13.  All-in call coercion: when a player returns call with fewer chips *)
(* than Table.CurrentBet minus the player's round bet, then whatever the   *)
(* amount returned, all of the player's chips go to the pot, the player's  *)
(* chips are 0 afterwards and the player is not folded.                    *)
(***************************************************************************)
C13_AllInCallCoercion ==
    [][\A amount \in Amounts :
         LET p == currentPlayerIndex
         IN (takeTurnWith("call", amount) /\ chips[p] < CurrentBet - curBet[p])
              => /\ chips'[p] = 0
                 /\ Pot' = Pot + chips[p]
                 /\ curBet'[p] = curBet[p] + chips[p]
                 /\ ~folded'[p]]_vars

(***************************************************************************)
(* C14.  Minimum raise: whenever a decision point changes Table.CurrentBet *)
(* (a raise is accepted), the new Table.CurrentBet is at least the         *)
(* previous one plus BigBlind, or the raiser has no chips left after it.   *)
(***************************************************************************)
C14_MinimumRaise ==
    [][(pc = "loop" /\ CurrentBet' # CurrentBet)
         => LET p == currentPlayerIndex
            IN /\ lastLogged' = "raises to"
               /\ CurrentBet' = curBet'[p]
               /\ \/ CurrentBet' >= CurrentBet + BigBlind
                  \/ chips'[p] = 0]_vars

\* a raise was accepted from a player who keeps chips
C14_Witness ==
    /\ pc = "loop" /\ log # <<>>
    /\ lastLogged = "raises to"
    /\ lastRaiser = LastActor
    /\ chips[LastActor] > 0
    /\ CurrentBet = curBet[LastActor]

(***************************************************************************)
(* C15.  A short all-in raise (one that raises Table.CurrentBet by less    *)
(* than MinRaise) does not re-open the betting: it is counted as one more  *)
(* player having acted, the count of players that acted is not reset and   *)
(* the last-aggressor position does not move.                              *)
(***************************************************************************)
C15_ShortAllInNoReopen ==
    [][(/\ pc = "loop"
        /\ CurrentBet' > CurrentBet
        /\ CurrentBet' < CurrentBet + MinRaise)
         => /\ playersActed' = playersActed + 1
            /\ lastRaiser' = lastRaiser]_vars

(***************************************************************************)
(* C16.  When a player's TakeTurn returns exit the betting round stops at  *)
(* once: the exiting player is not folded, no chips move, and no other     *)
(* player is asked to act after it.                                        *)
(***************************************************************************)
C16_ExitStopsRound ==
    [][\A amount \in Amounts :
         takeTurnWith("exit", amount) =>
           /\ folded' = folded
           /\ chips' = chips /\ Pot' = Pot /\ curBet' = curBet
           /\ ~TurnDue']_vars

\* a player that is neither folded nor out of chips
Eligible(p) == ~folded[p] /\ chips[p] > 0

\* the first eligible seat clockwise after seat from (from itself comes last)
NextEligible(from) ==
    LET ks == {k \in 1 .. NumPlayers : Eligible((from + k) % NumPlayers)}
    IN (from + (CHOOSE k \in ks : \A j \in ks : k <= j)) % NumPlayers

(***************************************************************************)
(* C17.  Decision points go only to eligible players, clockwise: a player  *)
(* given a decision point is neither folded nor at zero chips; the first   *)
(* decision point of a round goes to the first eligible seat at or after   *)
(* the round's start position, and every later one to the first eligible   *)
(* seat after the player of the decision point before it.                  *)
(***************************************************************************)
C17_ClockwiseEligible ==
    [][Len(log') = Len(log) + 1
         => LET p == log'[Len(log')].p
                from == IF log = <<>>
                        THEN startPosFor(stage) + NumPlayers - 1
                        ELSE LastActor
            IN /\ Eligible(p)
               /\ p = NextEligible(from)]_vars

\* a round in which the second decision point passed over a seat
C17_Witness ==
    /\ pc = "loop" /\ Len(log) >= 2
    /\ log[2].p = (log[1].p + 2) % NumPlayers
    /\ ~Eligible((log[1].p + 1) % NumPlayers)

(***************************************************************************)
(* C18.  Posting blinds: the small-blind player puts in min(SmallBlind,    *)
(* chips) and the big-blind player min(BigBlind, chips); the chips of each *)
(* drop by exactly that amount and the round bet of each is set to it, no  *)
(* other player's chips change, the pot grows by the sum of the two        *)
(* amounts, and Table.CurrentBet becomes BigBlind whatever was posted.     *)
(***************************************************************************)
C18_PostBlinds ==
    [][pc = "postBlinds"
         => LET sb == SmallBlindPos
                bb == BigBlindPos
                sbAmount == Min(SmallBlind, chips[sb])
                bbAmount == Min(BigBlind, chips[bb])
            IN /\ chips'[sb] = chips[sb] - sbAmount
               /\ chips'[bb] = chips[bb] - bbAmount
               /\ \A p \in Players \ {sb, bb} : chips'[p] = chips[p]
               /\ curBet'[sb] = sbAmount
               /\ curBet'[bb] = bbAmount
               /\ Pot' = Pot + sbAmount + bbAmount
               /\ Pot = 0
               /\ CurrentBet' = BigBlind]_vars

\* the blinds were posted by a big blind that could not post it in full
C18_Witness ==
    /\ pc = "deal"
    /\ curBet[SmallBlindPos] = SmallBlind
    /\ curBet[BigBlindPos] = SmallBlind /\ chips[BigBlindPos] = 0
    /\ Pot = curBet[SmallBlindPos] + curBet[BigBlindPos]
    /\ CurrentBet = BigBlind

(***************************************************************************)
(* C19.  Blind positions: after determineBlinds, at a table of n >= 3      *)
(* seats the small blind is at (DealerPos + 1) mod n and the big blind at  *)
(* (DealerPos + 2) mod n; at a table of 2 seats the small blind is at      *)
(* DealerPos and the big blind at (DealerPos + 1) mod 2; for every n >= 2  *)
(* and every dealer position the two blinds are different seats.           *)
(***************************************************************************)
C19_BlindPositions ==
    pc = "postBlinds"
    => /\ seats >= 3 => /\ SmallBlindPos = (DealerPos + 1) % seats
                        /\ BigBlindPos = (DealerPos + 2) % seats
       /\ seats = 2 => /\ SmallBlindPos = DealerPos
                       /\ BigBlindPos = (DealerPos + 1) % 2
       /\ SmallBlindPos # BigBlindPos
       /\ SmallBlindPos \in 0 .. (seats - 1)
       /\ BigBlindPos \in 0 .. (seats - 1)

\* heads-up with the dealer in seat 1: small blind 1, big blind 0
C19_Witness ==
    /\ pc = "postBlinds" /\ seats = 2 /\ DealerPos = 1
    /\ SmallBlindPos = 1 /\ BigBlindPos = 0

\* the players that dealHands deals to
WithChips == {p \in Players : chips[p] > 0}

\* what the claim says of dealHands(k): k cards to every player with chips,
\* none to the others, and k cards per player with chips off the deck
DealtExactly(k) ==
    /\ \A p \in Players :
         hand'[p] = IF chips[p] > 0 THEN hand[p] + k ELSE hand[p]
    /\ deck' = deck - k * Cardinality(WithChips)

(***************************************************************************)
(* C20.  dealHands(k) gives exactly k cards to every player whose chips    *)
(* are greater than 0 and no card to a player with 0 chips, and takes      *)
(* exactly k times the number of players with chips off the deck, provided *)
(* the deck holds that many cards; when it does not, the deck is dealt     *)
(* until it is empty and no player gets more than k cards.                 *)
(***************************************************************************)
C20_DealHands ==
    [][\A k \in 0 .. MaxDeal :
         dealHandsWith(k) =>
           IF k * Cardinality(WithChips) <= deck
           THEN DealtExactly(k)
           ELSE /\ deck' = 0
                /\ \A p \in Players :
                     /\ hand'[p] <= hand[p] + k
                     /\ chips[p] = 0 => hand'[p] = hand[p]
                /\ SumOver(hand', Players) = SumOver(hand, Players) + deck]_vars

\* three cards each were dealt at a table with a player without chips
C20_Witness ==
    /\ pc = "preflop"
    /\ \E p, q \in Players :
         /\ chips[p] = 0 /\ hand[p] = 0
         /\ chips[q] > 0 /\ hand[q] = 3
    /\ deck = DeckSize - 3 * Cardinality(WithChips)

(***************************************************************************)
(* C20 as stated: dealHands(k) gives exactly k cards to every player with  *)
(* chips and takes k cards per such player off the deck, for every k.      *)
(***************************************************************************)
C20_DealHandsAnyDeck ==
    [][\A k \in 0 .. MaxDeal : dealHandsWith(k) => DealtExactly(k)]_vars

CountOf(c, cs) == Cardinality({i \in 1 .. Len(cs) : cs[i] = c})

(***************************************************************************)
(* C22.  NewDeck returns a deck of exactly 52 cards in which every         *)
(* combination of the 4 suits and the ranks 2..14 lies exactly once.       *)
(***************************************************************************)
C22_NewDeck ==
    pc = "newDeck" =>
      /\ Len(cards) = 52
      /\ \A suit \in 0 .. 3, rank \in 2 .. 14 :
           CountOf([Suit |-> suit, Rank |-> rank], cards) = 1

\* a deck that replaced one that had been shuffled and dealt from
C22_Witness ==
    /\ pc = "newDeck"
    /\ shuffles = 1
    /\ cards[1] = [Suit |-> 0, Rank |-> 2]
    /\ cards[52] = [Suit |-> 3, Rank |-> 14]

(***************************************************************************)
(* C23.  Deck.Deal on a deck that is not empty returns the last card, the  *)
(* deck is one card shorter and no longer holds the returned card; on an   *)
(* empty deck it returns an error and the deck stays empty.                *)
(***************************************************************************)
C23_Deal ==
    [][callDeal =>
         IF Len(cards) > 0
         THEN /\ ~dealErr'
              /\ dealtCards' = <<cards[Len(cards)]>>
              /\ Len(cards') = Len(cards) - 1
              /\ CountOf(dealtCards'[1], cards') = 0
         ELSE /\ dealErr'
              /\ cards' = <<>>]_vars

\* the ace of clubs was dealt from a shuffled deck that had it below the top
C23_Witness ==
    /\ pc = "dealt"
    /\ ~dealErr
    /\ shuffles = 1
    /\ dealtCards = <<[Suit |-> 3, Rank |-> 14]>>
    /\ Len(cards) = 50

(***************************************************************************)
(* C24.  Deck.DealMultiple(n) deals all or nothing: from a deck of at      *)
(* least n cards it returns exactly n cards and the deck is n cards        *)
(* shorter; from a deck of fewer than n cards it returns an error and no   *)
(* card, and the deck is unchanged.                                        *)
(***************************************************************************)
C24_DealMultiple ==
    [][\A numCards \in 0 .. MaxDealN :
         callDealMultipleWith(numCards) =>
           IF Len(cards) >= numCards
           THEN /\ ~dealErr'
                /\ Len(dealtCards') = numCards
                /\ Len(cards') = Len(cards) - numCards
           ELSE /\ dealErr'
                /\ dealtCards' = <<>>
                /\ cards' = cards]_vars

\* more cards were asked for than the two the deck still holds
C24_Witness ==
    /\ pc = "dealtMultiple"
    /\ dealErr
    /\ dealtCards = <<>>
    /\ Len(cards) = 2

(***************************************************************************)
(* C25.  Deck.Shuffle only permutes the deck: it holds as many cards as    *)
(* before and every card as many times as before; no card is missing,      *)
(* added or duplicated.                                                    *)
(***************************************************************************)
C25_Shuffle ==
    [][callShuffle =>
         /\ Len(cards') = Len(cards)
         /\ \A i \in 1 .. Len(cards) :
              CountOf(cards[i], cards') = CountOf(cards[i], cards)
         /\ \A i \in 1 .. Len(cards') :
              CountOf(cards'[i], cards) = CountOf(cards'[i], cards')]_vars

\* a full deck whose top card is no longer the ace of clubs
C25_Witness ==
    /\ pc = "shuffled"
    /\ Len(cards) = 52
    /\ cards[52] # [Suit |-> 3, Rank |-> 14]
    /\ cards[49] = [Suit |-> 3, Rank |-> 14]


\* how many times the card c is held in the hand: in the deck, on the table
\* and in the players' hands
TimesHeld(c) ==
    CountOf(c, cards) + CountOf(c, CommunityCards)
      + SumOver([p \in Players |-> CountOf(c, handCards[p])], Players)

(***************************************************************************)
(* C26.  Within a hand no card is held twice: the hole cards of all the    *)
(* players, the community cards and the cards left in the deck are         *)
(* pairwise disjoint, so the up to 7 cards of a player (hole cards and     *)
(* community cards) hold no card twice.                                    *)
(***************************************************************************)
C26_NoCardTwice ==
    /\ \A c \in AllCards : TimesHeld(c) <= 1
    /\ \A p \in Players :
         LET seven == handCards[p] \o CommunityCards
         IN /\ Len(seven) <= 7
            /\ \A i, j \in 1 .. Len(seven) : seven[i] = seven[j] => i = j

\* the river of a second hand is on the table, all players hold two cards
\* and the deck was shuffled
C26_Witness ==
    /\ handNo = 1
    /\ Len(CommunityCards) = 5
    /\ \A p \in Players : Len(handCards[p]) = 2
    /\ Len(cards) = DeckSize - 2 * NumPlayers - 8
    /\ handCards[0][1] # [Suit |-> 3, Rank |-> 14]


(***************************************************************************)
(* C27.  Evaluated hands are totally ordered, by category first and by     *)
(* their tiebreaker ranks next, and the showdown winner is decided by this *)
(* order: a player that Game.showdown pays holds a hand that no other      *)
(* remaining player's hand is above.  (handRank is the place of a player's *)
(* evaluated hand in that order.)                                          *)
(***************************************************************************)
C27_ShowdownByHandOrder ==
    [][(showdown /\ Cardinality(getPlayersInHand) >= 2) =>
         \A p \in getPlayersInHand :
           chips'[p] > chips[p] =>
             \A q \in getPlayersInHand : handRank'[q] <= handRank'[p]]_vars


\* the cards a player's hand is made of: hole cards and community cards
SevenOf(p) == handCards[p] \o CommunityCards

\* the ranks of a straight with high card top; the ace lies below the 2 in
\* the straight with high card 5
RunOf(top) == IF top = 5 THEN {Ace, 2, 3, 4, 5} ELSE (top - 4) .. top

\* the high card of the best straight in the cards cs, 0 without a straight
StraightHigh(cs) ==
    LET ranks == {cs[i].Rank : i \in 1 .. Len(cs)}
        tops == {top \in 5 .. Ace : RunOf(top) \subseteq ranks}
    IN IF tops = {} THEN 0 ELSE CHOOSE t \in tops : \A u \in tops : u <= t

\* the cards cs make a category above Straight: five cards of a suit, or
\* three cards of a rank with two of another, or four of a rank
AboveStraight(cs) ==
    LET ofSuit(suit) == Cardinality({i \in 1 .. Len(cs) : cs[i].Suit = suit})
        ofRank(rank) == Cardinality({i \in 1 .. Len(cs) : cs[i].Rank = rank})
    IN \/ \E suit \in Spade .. Club : ofSuit(suit) >= 5
       \/ \E r1, r2 \in Two .. Ace : r1 # r2 /\ ofRank(r1) >= 3 /\ ofRank(r2) >= 2
       \/ \E rank \in Two .. Ace : ofRank(rank) >= 4

(***************************************************************************)
(* C28.  Cards that hold A, 2, 3, 4, 5 and no higher straight (and nothing *)
(* above a straight) are a Straight with high card 5, not 14: at a         *)
(* showdown such a hand is below every straight with a higher card, and    *)
(* its holder is paid nothing when another remaining player holds one.     *)
(* (The remaining players all contributed the same.)                       *)
(***************************************************************************)
C28_AceLowStraight ==
    (pc = "finish" /\ ShowdownPaid) =>
      \A p, q \in getPlayersInHand :
        (/\ StraightHigh(SevenOf(p)) = 5 /\ ~AboveStraight(SevenOf(p))
         /\ StraightHigh(SevenOf(q)) > 5 /\ ~AboveStraight(SevenOf(q)))
        => Won(p) = 0


(***************************************************************************)
(* C29.  Deck exhaustion is fatal to the hand: once dealing hole cards or  *)
(* community cards has failed for want of cards, no further betting round  *)
(* and no showdown is run for the hand and no pot is awarded.              *)
(***************************************************************************)
C29_DeckExhaustionAborts ==
    [][dealErr =>
         /\ ~beginRound
         /\ ~showdown
         /\ awards' = awards
         /\ chips' = chips]_vars


(***************************************************************************)
(* C30.  Every decision point makes exactly one UI.LogAction call, and the *)
(* amount logged is the number of chips the action moved from the acting   *)
(* player to the pot (0 for a fold and a check); postBlinds logs for each  *)
(* blind the amount that was posted.                                       *)
(***************************************************************************)
C30_OneLogPerDecision ==
    [][/\ \A action \in Actions, amount \in Amounts :
            takeTurnWith(action, amount) =>
              LET p == currentPlayerIndex
              IN /\ loggedAmounts' = <<chips[p] - chips'[p]>>
                 /\ loggedAmounts' = <<Pot' - Pot>>
       /\ postBlinds =>
            /\ loggedAmounts' = <<chips[SmallBlindPos] - chips'[SmallBlindPos],
                                  chips[BigBlindPos] - chips'[BigBlindPos]>>
            /\ loggedAmounts'[1] + loggedAmounts'[2] = Pot' - Pot]_vars

(***************************************************************************)
(* The hand engine with its scheduling: the program is one thread that     *)
(* takes its next step whenever it has one, and every TakeTurn call        *)
(* returns.                                                                *)
(***************************************************************************)
SpecLive == Init /\ [][Next]_vars /\ WF_vars(Next)

(***************************************************************************)
(* C31.  Every betting round terminates: once runBettingRound is entered,  *)
(* it returns after finitely many steps, whatever the players' chips are   *)
(* (all remaining players all-in, the raiser all-in, one player left with  *)
(* chips).                                                                 *)
(***************************************************************************)
C31_RoundTerminates == (pc = "beginRound") ~> (pc \in {"nextStage", "finish"})

(***************************************************************************)
(* C32.  Whether Start plays another hand depends on chips only: after a   *)
(* hand, with fewer than NumHands hands played, the game is over only when *)
(* fewer than two players have chips; the fold flags of the hand that was  *)
(* played do not end the game.                                             *)
(***************************************************************************)
C32_NextHandByChips ==
    (pc = "gameOver" /\ handNo >= 1 /\ handNo < NumHands)
        => Cardinality({p \in Players : chips[p] > 0}) < 2

(***************************************************************************)
(* C33.  The player that is paid the pot took part in the hand: that       *)
(* player holds the two hole cards dealt in it.  A player that began the   *)
(* hand with no chips (holds no card, put nothing in the pot) is never     *)
(* paid.                                                                   *)
(***************************************************************************)
C33_WinnerWasDealtIn ==
    \A i \in 1 .. Len(awards) : hand[awards[i].to] = 2

(***************************************************************************)
(* C34.  When the pre-flop betting round starts, every player that has     *)
(* chips in the pot holds exactly two hole cards, a player that went       *)
(* all-in posting a blind included.                                        *)
(***************************************************************************)
C34_BlindPostersHoldCards ==
    (pc = "beginRound" /\ Round = "Pre-flop")
        => \A p \in Players : contrib[p] > 0 => hand[p] = 2

(***************************************************************************)
(* C35.  Chips never move the wrong way in a betting round: whatever       *)
(* (action, amount) TakeTurn returns, a negative amount and an amount      *)
(* above the player's chips included, the acting player's chips do not     *)
(* grow and do not go below 0, and g.Pot does not shrink and does not go   *)
(* below 0.                                                                *)
(***************************************************************************)
C35_ChipsMoveToThePot ==
    [][\A action \in Actions, amount \in Amounts :
         takeTurnWith(action, amount) =>
           LET p == currentPlayerIndex
           IN /\ chips'[p] <= chips[p]
              /\ chips'[p] >= 0
              /\ Pot' >= Pot
              /\ Pot' >= 0]_vars

(***************************************************************************)
(* C36.  A call by a player whose chips cover Table.CurrentBet minus the   *)
(* player's round bet moves exactly that difference to the pot, whatever   *)
(* amount was returned: afterwards the player's round bet equals           *)
(* Table.CurrentBet, and Table.CurrentBet is unchanged.                    *)
(***************************************************************************)
C36_CoveredCallIsExact ==
    [][\A amount \in Amounts :
         LET p == currentPlayerIndex
             needed == CurrentBet - curBet[p]
         IN (takeTurnWith("call", amount) /\ chips[p] >= needed)
              => /\ chips'[p] = chips[p] - needed
                 /\ Pot' = Pot + needed
                 /\ curBet'[p] = CurrentBet
                 /\ CurrentBet' = CurrentBet
                 /\ ~folded'[p]]_vars

\* a call that moved chips was made by a player who keeps chips after it
C36_Witness ==
    /\ pc = "loop" /\ log # <<>>
    /\ lastLogged = "calls"
    /\ loggedAmounts # <<>> /\ loggedAmounts[1] > 0
    /\ chips[LastActor] > 0
    /\ curBet[LastActor] = CurrentBet

(***************************************************************************)
(* C37.  An invalid raise is normalised or rejected.  A raise whose round  *)
(* bet would not be above Table.CurrentBet is processed as a call of       *)
(* min(Table.CurrentBet - round bet, chips).  A raise above                *)
(* Table.CurrentBet by less than MinRaise, by a player who would keep      *)
(* chips, is a fold and no chips move.  In both cases Table.CurrentBet and *)
(* the last raiser stay as they were and the count of players that acted   *)
(* is not reset.                                                           *)
(***************************************************************************)
C37_InvalidRaise ==
    [][\A amount \in Amounts :
         takeTurnWith("raise", amount) =>
           LET p == currentPlayerIndex
               betAmount == IF amount > chips[p] THEN chips[p] ELSE amount
               totalPlayerBet == curBet[p] + betAmount
               called == IF CurrentBet - curBet[p] < chips[p]
                         THEN CurrentBet - curBet[p] ELSE chips[p]
               notARaise == /\ CurrentBet' = CurrentBet
                            /\ lastRaiser' = lastRaiser
                            /\ playersActed' = playersActed + 1
                            /\ numToAct' = numToAct
           IN /\ totalPlayerBet <= CurrentBet =>
                   /\ chips'[p] = chips[p] - called
                   /\ curBet'[p] = curBet[p] + called
                   /\ Pot' = Pot + called
                   /\ ~folded'[p]
                   /\ notARaise
              /\ (/\ totalPlayerBet > CurrentBet
                  /\ totalPlayerBet - CurrentBet < MinRaise
                  /\ chips[p] > betAmount) =>
                   /\ folded'[p]
                   /\ chips' = chips /\ curBet' = curBet /\ Pot' = Pot
                   /\ notARaise]_vars

\* a raise of less than the minimum was turned into a fold after another
\* decision of the round; the player keeps its chips
C37_Witness ==
    /\ pc = "loop" /\ Len(log) >= 2
    /\ lastLogged = "folds (invalid raise size)"
    /\ loggedAmounts = <<0>>
    /\ folded[LastActor]
    /\ chips[LastActor] > 0

-----------------------------------------------------------------------------
(***************************************************************************)
(* BotPlayer.TakeTurn (internal/player/bot_player.go) with                 *)
(* BotAI.DecideAction (internal/player/bot_ai.go, in table.go:46-165).     *)
(* The draws of the random source are inputs: decision is r.Intn(100), or  *)
(* r.Intn(3) for a difficulty that is none of easy, medium and hard, and   *)
(* raiseAmount is int(float64(minRaise) * raiseMultiplier).                *)
(***************************************************************************)
Difficulties == {"easy", "medium", "hard", "default"}

IsTiered(d) == d \in {"easy", "medium", "hard"}

\* table.go:74, 98, 121 (r.Intn(100)) and table.go:144 (r.Intn(3))
DecisionsOf(d) == IF IsTiered(d) THEN 0 .. 99 ELSE 0 .. 2

\* table.go:76, 100, 123: below this decision the bot folds
FoldBelow(d) ==
    CASE d = "easy" -> 20 [] d = "medium" -> 15 [] OTHER -> 10

\* table.go:78, 102, 125: below this decision the bot calls
CallBelow(d) ==
    CASE d = "easy" -> 80 [] d = "medium" -> 70 [] OTHER -> 50

\* table.go:86-87, 109-110, 132-133: raiseMultiplier is in [1, 2), [1, 3) or
\* [2, 4), and raiseAmount is minRaise times it, truncated
RaiseAmountsOf(d, minRaise) ==
    CASE d = "easy" -> minRaise .. (2 * minRaise - 1)
      [] d = "medium" -> minRaise .. (3 * minRaise - 1)
      [] d = "hard" -> (2 * minRaise) .. (4 * minRaise - 1)
      [] OTHER -> {minRaise}

\* table.go:80-83, 103-106, 126-129
tieredCall(currentBet, c) ==
    IF currentBet >= c THEN [action |-> "call", amount |-> c]
    ELSE [action |-> "call", amount |-> currentBet]

\* table.go:88-93, 111-116, 134-139
tieredRaise(currentBet, c, raiseAmount) ==
    LET totalBet == currentBet + raiseAmount
    IN IF totalBet >= c THEN [action |-> "raise", amount |-> c]
       ELSE [action |-> "raise", amount |-> totalBet]

\* table.go:142-163
defaultDecide(decision, currentBet, c, minRaise) ==
    CASE decision = 0 -> [action |-> "fold", amount |-> 0]
      [] decision = 1 ->
           IF currentBet > c THEN [action |-> "call", amount |-> c]
           ELSE [action |-> "call", amount |-> currentBet]
      [] OTHER ->
           LET raiseAmount == currentBet + minRaise
           IN IF raiseAmount > c THEN [action |-> "raise", amount |-> c]
              ELSE [action |-> "raise", amount |-> raiseAmount]

\* BotAI.DecideAction: the action and the total bet of the round
DecideAction(d, decision, raiseAmount, currentBet, c, minRaise) ==
    IF IsTiered(d)
    THEN IF decision < FoldBelow(d) THEN [action |-> "fold", amount |-> 0]
         ELSE IF decision < CallBelow(d) THEN tieredCall(currentBet, c)
         ELSE tieredRaise(currentBet, c, raiseAmount)
    ELSE defaultDecide(decision, currentBet, c, minRaise)

\* bot_player.go:101-133: the amount to add for the action decided
amountToAddFor(r, cb, c, currentBet) ==
    LET callAmount == currentBet - cb
    IN CASE r.action = "fold" -> [action |-> "fold", amount |-> 0]
         [] r.action = "check" -> [action |-> "check", amount |-> 0]
         [] r.action = "call" ->
              [action |-> "call",
               amount |-> IF callAmount > c THEN c ELSE callAmount]
         [] r.action = "raise" ->
              IF r.amount - cb > c
              THEN [action |-> IF cb + c <= currentBet THEN "call" ELSE "raise",
                    amount |-> c]
              ELSE [action |-> "raise", amount |-> r.amount - cb]
         [] OTHER -> [action |-> "fold", amount |-> 0]

\* (mutant) the amount is returned as it was computed
botSafeguard_None(r, cb, c, currentBet) == r

\* bot_player.go:135-150: a negative amount is a fold, an amount above the
\* chips is all-in
botSafeguard(r, cb, c, currentBet) ==
    IF r.amount < 0 THEN [action |-> "fold", amount |-> 0]
    ELSE IF r.amount > c
    THEN [action |-> IF cb + c > currentBet THEN "raise" ELSE "call",
          amount |-> c]
    ELSE r

\* BotPlayer.TakeTurn, for what DecideAction returned
BotTakeTurn(decided, cb, c, currentBet) ==
    botSafeguard(amountToAddFor(decided, cb, c, currentBet), cb, c, currentBet)

(***************************************************************************)
(* A bot on its own at a decision point: a BotPlayer of any difficulty,    *)
(* with chips left and a round bet that is not above the bet to match, is  *)
(* asked for its turn as runBettingRound asks it (game.go:298-300).        *)
(***************************************************************************)
\* the largest chips of the bot, and the largest bet to match
MaxBotChips == 7
MaxBotBet == 4

\* the seat of the bot that is followed
BotSeat == 1

InitBot ==
    /\ pc = "botTurn"
    /\ handNo = 0
    /\ \E c \in 1 .. MaxBotChips :
         chips = [p \in Players |-> IF p = BotSeat THEN c ELSE MaxChips]
    /\ CurrentBet \in 0 .. MaxBotBet
    /\ \E cb \in 0 .. CurrentBet :
         /\ curBet = [p \in Players |-> IF p = BotSeat THEN cb ELSE 0]
         /\ contrib = [p \in Players |-> IF p = BotSeat THEN cb ELSE 0]
         /\ Pot = cb
    /\ folded = [p \in Players |-> FALSE]
    /\ hand = [p \in Players |-> 0]
    /\ Round = ""
    /\ community = 0
    /\ deck = DeckSize
    /\ DealerPos = 0
    /\ SmallBlindPos = 0
    /\ BigBlindPos = 0
    /\ stage = 0
    /\ seats = NumPlayers
    /\ lastRaiser = -1
    /\ playersActed = 0
    /\ numToAct = 0
    /\ currentPlayerIndex = BotSeat
    /\ actTarget = 0
    /\ awards = <<>>
    /\ handRank = NoRanks
    /\ log = <<>>
    /\ lastLogged = ""
    /\ loggedAmounts = <<>>
    /\ CardsNotFollowed
    /\ difficulty \in Difficulties
    /\ turnReturned = FALSE
    /\ turnAction = ""
    /\ turnAmount = 0

\* game.go:300 with a BotPlayer: TakeTurn(g.Table, g.Table.CurrentBet, MinRaise)
botTakeTurn ==
    /\ pc = "botTurn"
    /\ \E decision \in DecisionsOf(difficulty),
          raiseAmount \in RaiseAmountsOf(difficulty, MinRaise) :
         LET p == currentPlayerIndex
             decided == DecideAction(difficulty, decision, raiseAmount,
                                     CurrentBet, chips[p], MinRaise)
             r == BotTakeTurn(decided, curBet[p], chips[p], CurrentBet)
         IN /\ turnAction' = r.action
            /\ turnAmount' = r.amount
    /\ turnReturned' = TRUE
    /\ pc' = "botReturned"
    /\ UNCHANGED <<difficulty, tableVars, roundVars, obsVars, cardVars>>

NextBot == botTakeTurn

SpecBot == InitBot /\ [][NextBot]_vars

(***************************************************************************)
(* C38.  Every raise BotPlayer.TakeTurn returns is legal for the           *)
(* controller: it brings the bot's round bet to at least currentBet +      *)
(* minRaise or it puts in all of the bot's chips, so that runBettingRound  *)
(* does not fold the bot for an invalid raise size.                        *)
(***************************************************************************)
C38_BotRaiseLegal ==
    (turnReturned /\ turnAction = "raise") =>
        LET p == currentPlayerIndex
        IN /\ \/ curBet[p] + turnAmount >= CurrentBet + MinRaise
              \/ turnAmount = chips[p]
           /\ raiseOutcome(chips[p], curBet[p], CurrentBet, turnAmount).kind
                # "fold"

(***************************************************************************)
(* C39.  BotPlayer.TakeTurn returns fold, call or raise, with an amount to *)
(* add that is at least 0 and at most the bot's chips; with call the       *)
(* amount is min(currentBet - the bot's round bet, chips), with fold it    *)
(* is 0.                                                                   *)
(***************************************************************************)
C39_BotTurnInRange ==
    turnReturned =>
        LET p == currentPlayerIndex
            toCall == CurrentBet - curBet[p]
        IN /\ turnAction \in {"fold", "call", "raise"}
           /\ turnAmount >= 0
           /\ turnAmount <= chips[p]
           /\ turnAction = "call" =>
                turnAmount = (IF toCall < chips[p] THEN toCall ELSE chips[p])
           /\ turnAction = "fold" => turnAmount = 0

\* a bot that cannot cover the bet returned an all-in call
C39_Witness ==
    /\ turnReturned
    /\ turnAction = "call"
    /\ chips[currentPlayerIndex] < CurrentBet - curBet[currentPlayerIndex]
    /\ turnAmount = chips[currentPlayerIndex]

(***************************************************************************)
(* C40.  Within a betting round Table.CurrentBet never decreases and no    *)
(* player's round bet is above Table.CurrentBet; an accepted raise sets    *)
(* Table.CurrentBet to the raiser's new round bet, which is the previous   *)
(* round bet plus the chips the raiser added.                              *)
(***************************************************************************)
C40_HighBet ==
    [][(pc \in {"seek", "loop"}) =>
         (/\ \A p \in Players : curBet[p] <= CurrentBet
          /\ \A p \in Players : curBet'[p] <= CurrentBet'
          /\ CurrentBet' >= CurrentBet
          /\ \A amount \in Amounts :
               (takeTurnWith("raise", amount) /\ lastLogged' = "raises to") =>
                 LET p == currentPlayerIndex
                 IN /\ CurrentBet' = curBet'[p]
                    /\ curBet'[p] = curBet[p] + (chips[p] - chips'[p])
                    /\ CurrentBet < CurrentBet')]_vars

\* a raise was accepted on the flop, where the round began with no bet
C40_Witness ==
    /\ pc = "loop" /\ log # <<>>
    /\ Round = "Flop"
    /\ lastLogged = "raises to"
    /\ loggedAmounts # <<>>
    /\ CurrentBet = loggedAmounts[1]
    /\ CurrentBet = curBet[LastActor]
    /\ \E q \in Players : q # LastActor /\ ~folded[q] /\ curBet[q] < CurrentBet

=============================================================================
